---------------------------- MODULE Spec2Model ----------------------------
(***************************************************************************)
(* School management system: students, instructors, courses and the        *)
(* links between them.  Four programs of the repository are modelled:      *)
(*   - the id-keyed store DATA of submission/part2_tkinter.py (the same    *)
(*     store and handlers as pyqt_app/part3_pyqt5.py),                     *)
(*   - the object-graph Tkinter app Tkinter_documented.py over classes.py, *)
(*   - the dataclass library submission/part1_oop.py,                      *)
(*   - the SQLite backend submission/part4_database.py.                    *)
(* Each program has its own variables, initial state and next-state        *)
(* relation; a specification runs one program and keeps the others idle.   *)
(***************************************************************************)
EXTENDS Integers, Sequences, FiniteSets, TLC

(***************************************************************************)
(* Bounds of the model.                                                    *)
(***************************************************************************)
NumStudents == 2
NumCourses == 2
NumInstructors == 1

(***************************************************************************)
(* Values.  Python's None is the distinguished value None; texts are TLA+  *)
(* strings, and Chars gives the characters of the texts whose content is   *)
(* inspected (email validation).                                           *)
(***************************************************************************)
None == "<None>"

SidTable == <<"s1", "s2", "s3", "s4">>
CidTable == <<"c1", "c2", "c3", "c4">>
IidTable == <<"i1", "i2", "i3", "i4">>

SIDs == {SidTable[k] : k \in 1..NumStudents}
CIDs == {CidTable[k] : k \in 1..NumCourses}
IIDs == {IidTable[k] : k \in 1..NumInstructors}

Range(s) == {s[k] : k \in 1..Len(s)}

NoDup(s) == \A a, b \in 1..Len(s) : s[a] = s[b] => a = b

\* list.remove(x): removes the first occurrence of x
RECURSIVE ListRemove(_, _)
ListRemove(s, x) ==
    IF s = <<>> THEN <<>>
    ELSE IF Head(s) = x THEN Tail(s)
    ELSE <<Head(s)>> \o ListRemove(Tail(s), x)

\* the characters of the email texts the forms receive
Chars(t) ==
    CASE t = "ann@u.edu" -> <<"a", "n", "n", "@", "u", ".", "e", "d", "u">>
      [] t = "ann.u.edu" -> <<"a", "n", "n", ".", "u", ".", "e", "d", "u">>
      [] t = "@u.edu"    -> <<"@", "u", ".", "e", "d", "u">>
      [] t = "ann@uedu"  -> <<"a", "n", "n", "@", "u", "e", "d", "u">>
      [] t = " "         -> <<" ">>
      [] t = "student@university.edu" ->
            <<"s", "t", "u", "d", "e", "n", "t", "@", "u", "n", "i", "v", "e",
              "r", "s", "i", "t", "y", ".", "e", "d", "u">>
      [] t = "professor@university.edu" ->
            <<"p", "r", "o", "f", "e", "s", "s", "o", "r", "@", "u", "n", "i",
              "v", "e", "r", "s", "i", "t", "y", ".", "e", "d", "u">>
      [] OTHER           -> <<>>

\* str.strip() on the texts of the model: only the blank text changes
Strip(t) == IF t = " " THEN "" ELSE t

\* the characters of the texts of the id-keyed store and of the search boxes
Text(t) ==
    CASE t = ""     -> <<>>
      [] t = "s1"   -> <<"s", "1">>
      [] t = "s2"   -> <<"s", "2">>
      [] t = "s3"   -> <<"s", "3">>
      [] t = "s4"   -> <<"s", "4">>
      [] t = "c1"   -> <<"c", "1">>
      [] t = "c2"   -> <<"c", "2">>
      [] t = "c3"   -> <<"c", "3">>
      [] t = "c4"   -> <<"c", "4">>
      [] t = "i1"   -> <<"i", "1">>
      [] t = "i2"   -> <<"i", "2">>
      [] t = "i3"   -> <<"i", "3">>
      [] t = "i4"   -> <<"i", "4">>
      [] t = "Ann"  -> <<"A", "n", "n">>
      [] t = "Algo" -> <<"A", "l", "g", "o">>
      [] t = "Bio"  -> <<"B", "i", "o">>
      [] t = " ALGO " -> <<" ", "A", "L", "G", "O", " ">>
      [] t = "None" -> <<"N", "o", "n", "e">>
      [] t = "none" -> <<"n", "o", "n", "e">>
      [] t = "1 a"  -> <<"1", " ", "a">>
      [] t = "John Doe" -> <<"J", "o", "h", "n", " ", "D", "o", "e">>
      [] t = "Dr. Smith" -> <<"D", "r", ".", " ", "S", "m", "i", "t", "h">>
      [] t = "Introduction to Computing" -> <<"I", "n", "t", "r", "o", "d", "u", "c", "t", "i", "o", "n", " ", "t", "o", " ", "C", "o", "m", "p", "u", "t", "i", "n", "g">>
      [] t = "algo" -> <<"a", "l", "g", "o">>
      [] t = "stu" -> <<"s", "t", "u">>
      [] t = "course100" -> <<"c", "o", "u", "r", "s", "e", "1", "0", "0">>
      [] t = "STU100" -> <<"S", "T", "U", "1", "0", "0">>
      [] t = "STU101" -> <<"S", "T", "U", "1", "0", "1">>
      [] t = "STU102" -> <<"S", "T", "U", "1", "0", "2">>
      [] t = "STU103" -> <<"S", "T", "U", "1", "0", "3">>
      [] t = "STU104" -> <<"S", "T", "U", "1", "0", "4">>
      [] t = "PROF100" -> <<"P", "R", "O", "F", "1", "0", "0">>
      [] t = "PROF101" -> <<"P", "R", "O", "F", "1", "0", "1">>
      [] t = "PROF102" -> <<"P", "R", "O", "F", "1", "0", "2">>
      [] t = "PROF103" -> <<"P", "R", "O", "F", "1", "0", "3">>
      [] t = "PROF104" -> <<"P", "R", "O", "F", "1", "0", "4">>
      [] t = "COURSE100" -> <<"C", "O", "U", "R", "S", "E", "1", "0", "0">>
      [] t = "COURSE101" -> <<"C", "O", "U", "R", "S", "E", "1", "0", "1">>
      [] t = "COURSE102" -> <<"C", "O", "U", "R", "S", "E", "1", "0", "2">>
      [] t = "COURSE103" -> <<"C", "O", "U", "R", "S", "E", "1", "0", "3">>
      [] t = "COURSE104" -> <<"C", "O", "U", "R", "S", "E", "1", "0", "4">>
      [] OTHER      -> Chars(t)

\* str.lower() on the characters of the model
lower_char(c) ==
    LET upper == <<"A", "B", "C", "D", "E", "F", "G", "H", "I", "J", "K", "L",
                   "M", "N", "O", "P", "Q", "R", "S", "T", "U", "V", "W", "X",
                   "Y", "Z">>
        small == <<"a", "b", "c", "d", "e", "f", "g", "h", "i", "j", "k", "l",
                   "m", "n", "o", "p", "q", "r", "s", "t", "u", "v", "w", "x",
                   "y", "z">>
    IN IF \E k \in 1..26 : upper[k] = c
       THEN small[CHOOSE k \in 1..26 : upper[k] = c]
       ELSE c

lower(cs) == [k \in 1..Len(cs) |-> lower_char(cs[k])]

\* str.strip() on characters: blanks at both ends are dropped
RECURSIVE strip(_)
strip(cs) ==
    IF cs = <<>> THEN <<>>
    ELSE IF Head(cs) = " " THEN strip(Tail(cs))
    ELSE IF cs[Len(cs)] = " " THEN strip(SubSeq(cs, 1, Len(cs) - 1))
    ELSE cs

\* ' '.join(tokens), as characters
RECURSIVE join(_)
join(tokens) ==
    IF tokens = <<>> THEN <<>>
    ELSE IF Len(tokens) = 1 THEN Text(tokens[1])
    ELSE Text(Head(tokens)) \o <<" ">> \o join(Tail(tokens))

\* q in hay, both as characters
contains(hay, q) ==
    \E k \in 0..(Len(hay) - Len(q)) : SubSeq(hay, k + 1, k + Len(q)) = q

\* EMAIL_RE = ^[^@\s]+@[^@\s]+\.[^@\s]+$
is_valid_email(email) ==
    LET cs == Chars(email)
        plain(a, b) == \A k \in a..b : cs[k] # "@" /\ cs[k] # " "
    IN \E at \in 1..Len(cs) : \E dot \in 1..Len(cs) :
          /\ cs[at] = "@"
          /\ cs[dot] = "."
          /\ 1 < at /\ at + 1 < dot /\ dot < Len(cs)
          /\ plain(1, at - 1)
          /\ plain(at + 1, Len(cs))

\* int(age) raises for a text that is not a number
IntRaises(t) == t \notin {"20", "21", "-1"}

\* int(age) for the age texts of the model (where it does not raise)
IntOf(t) ==
    CASE t = "20" -> 20
      [] t = "21" -> 21
      [] t = "-1" -> -1
      [] OTHER    -> 0

is_valid_age(age) == IF IntRaises(age) THEN FALSE ELSE IntOf(age) >= 0

\* _missing_fields_message: some field is empty after stripping
_missing_fields_message(vals) == \E k \in 1..Len(vals) : Strip(vals[k]) = ""

\* _email_error_message
_email_error_message(email) == email # "" /\ ~is_valid_email(email)

(***************************************************************************)
(* Variables of program 2, the object-graph app (Tkinter_documented.py).   *)
(* Objects of classes.py live in a heap: a reference is a positive number, *)
(* NoRef stands for None.                                                  *)
(***************************************************************************)
VARIABLES
    student_records,     \* list of Student references
    instructor_list,     \* list of Instructor references
    course_catalog,      \* list of Course references
    sobj,                \* the Student objects, by reference
    iobj,                \* the Instructor objects, by reference
    cobj                 \* the Course objects, by reference

gvars == <<student_records, instructor_list, course_catalog, sobj, iobj, cobj>>

\* the objects of a program that uses the part1_oop classes
VARIABLES
    oop_students,        \* the Student objects, in creation order
    oop_instructors,     \* the Instructor objects, in creation order
    oop_courses,         \* the Course objects, in creation order
    to_json_outcome      \* how the last to_json call ended

ovars == <<oop_students, oop_instructors, oop_courses, to_json_outcome>>

\* the SQLite database school.db and how the last call of a database
\* function ended
VARIABLES
    DB,                  \* the tables students, instructors, courses, registrations
    db_error             \* "" or the exception the last call raised

dvars == <<DB, db_error>>

\* the locals of a running load_all_data of the object-graph app
VARIABLES
    loader               \* where the function is, and what it has built

lvars == <<loader>>

(***************************************************************************)
(* Program 1: the id-keyed store (part2_tkinter.py, part3_pyqt5.py).       *)
(***************************************************************************)
VARIABLES
    DATA,                \* the store: students, instructors, courses by id
    combo_instructor     \* text shown in the 'Instructor' picker

kvars == <<DATA, combo_instructor>>

EmptyMap == [k \in {} |-> None]

\* dict[key] = value
Put(m, key, val) == [k \in DOMAIN m \cup {key} |-> IF k = key THEN val ELSE m[k]]

\* dict.pop(key, None)
Pop(m, key) == [k \in DOMAIN m \ {key} |-> m[k]]

EmptyStore == [students |-> EmptyMap, instructors |-> EmptyMap, courses |-> EmptyMap]

\* texts typed into the forms
NameTexts == {"Ann", " "}
AgeTexts == {"20", "-1", "abc"}
EmailTexts == {"ann@u.edu", "ann@uedu"}
CourseNameTexts == {"Algo", "Bio", ""}

KInit ==
    /\ DATA = EmptyStore
    /\ combo_instructor = ""

\* the new student record of add_student; any previous record is replaced
add_student_record(name, age, email) ==
    [name |-> name, age |-> IntOf(age), email |-> email, courses |-> <<>>]

add_student(sid_in, name_in, age_in, email_in) ==
    LET sid == Strip(sid_in)
        name == Strip(name_in)
        age == Strip(age_in)
        email == Strip(email_in)
    IN /\ IF \/ _missing_fields_message(<<sid, name, age, email>>)
             \/ _email_error_message(email)
             \/ ~is_valid_age(age)
          THEN UNCHANGED DATA
          ELSE DATA' = [DATA EXCEPT !.students =
                           Put(@, sid, add_student_record(name, age, email))]
       /\ UNCHANGED combo_instructor
       /\ UNCHANGED <<gvars, ovars, dvars, lvars>>

add_instructor(iid_in, name_in, age_in, email_in) ==
    LET iid == Strip(iid_in)
        name == Strip(name_in)
        age == Strip(age_in)
        email == Strip(email_in)
    IN /\ IF \/ _missing_fields_message(<<iid, name, age, email>>)
             \/ _email_error_message(email)
             \/ ~is_valid_age(age)
          THEN UNCHANGED DATA
          ELSE DATA' = [DATA EXCEPT !.instructors =
                           Put(@, iid, [name |-> name, age |-> IntOf(age),
                                        email |-> email, courses |-> <<>>])]
       /\ UNCHANGED combo_instructor
       /\ UNCHANGED <<gvars, ovars, dvars, lvars>>

\* the new course record of add_course; any previous record is replaced
add_course_record(name) ==
    [name |-> name, instructor_id |-> None, students |-> <<>>]

add_course(cid_in, name_in) ==
    LET cid == Strip(cid_in)
        name == Strip(name_in)
    IN /\ IF _missing_fields_message(<<cid, name>>)
          THEN UNCHANGED DATA
          ELSE DATA' = [DATA EXCEPT !.courses =
                           Put(@, cid, add_course_record(name))]
       /\ UNCHANGED combo_instructor
       /\ UNCHANGED <<gvars, ovars, dvars, lvars>>

\* The pickers are read-only ttk.Combobox widgets: the user picks one of the
\* 'values', and refresh_dropdowns replaces the 'values' and leaves the shown
\* text alone, so a picker shows "" or an id picked earlier, which may have
\* been deleted since.  The 'Instructor' picker is state; the texts of the
\* other three pickers are arguments of the handlers, which return without
\* effect unless the text is a key of the store.
select_instructor(iid) ==
    /\ iid \in DOMAIN DATA.instructors
    /\ combo_instructor' = iid
    /\ UNCHANGED DATA
    /\ UNCHANGED <<gvars, ovars, dvars, lvars>>

\* the instructor_id stored by assign_instructor
assigned_instructor_id(iid) == IF iid # "" THEN iid ELSE None

assign_instructor(course_shown) ==
    LET cid == Strip(course_shown)
        iid == Strip(combo_instructor)
    IN /\ IF cid = "" \/ cid \notin DOMAIN DATA.courses
          THEN UNCHANGED DATA
          ELSE DATA' = [DATA EXCEPT !.courses[cid].instructor_id =
                           assigned_instructor_id(iid)]
       /\ UNCHANGED combo_instructor
       /\ UNCHANGED <<gvars, ovars, dvars, lvars>>

\* list.append(x) unless x is in the list
AppendNew(s, x) == IF x \in Range(s) THEN s ELSE Append(s, x)

register_student(student_shown, course_shown) ==
    LET sid == Strip(student_shown)
        cid == Strip(course_shown)
    IN /\ IF \/ sid = "" \/ cid = ""
             \/ sid \notin DOMAIN DATA.students
             \/ cid \notin DOMAIN DATA.courses
          THEN UNCHANGED DATA
          ELSE DATA' = [DATA EXCEPT
                           !.courses[cid].students = AppendNew(@, sid),
                           !.students[sid].courses = AppendNew(@, cid)]
       /\ UNCHANGED combo_instructor
       /\ UNCHANGED <<gvars, ovars, dvars, lvars>>

\* the cascade of delete_selected(kind = 'student') with every course's
\* students list emptied
delete_student_cascade_all(courses, key) ==
    [c \in DOMAIN courses |-> [courses[c] EXCEPT !.students = <<>>]]

\* the cascade of delete_selected(kind = 'student')
delete_student_cascade(courses, key) ==
    [c \in DOMAIN courses |->
        IF key \in Range(courses[c].students)
        THEN [courses[c] EXCEPT !.students = ListRemove(@, key)]
        ELSE courses[c]]

\* the cascade of delete_selected(kind = 'instructor')
delete_instructor_cascade(courses, key) ==
    [c \in DOMAIN courses |->
        IF courses[c].instructor_id = key
        THEN [courses[c] EXCEPT !.instructor_id = None]
        ELSE courses[c]]

\* the cascade of delete_selected(kind = 'course')
delete_course_cascade(students, key) ==
    [s \in DOMAIN students |->
        IF key \in Range(students[s].courses)
        THEN [students[s] EXCEPT !.courses = ListRemove(@, key)]
        ELSE students[s]]

\* the store after the body of delete_selected for the row with that key
delete_selected_store(store, kind, key) ==
    IF kind = "student"
    THEN [store EXCEPT !.students = Pop(@, key),
                       !.courses = delete_student_cascade(@, key)]
    ELSE IF kind = "instructor"
    THEN [store EXCEPT !.instructors = Pop(@, key),
                       !.courses = delete_instructor_cascade(@, key)]
    ELSE IF kind = "course"
    THEN [store EXCEPT !.courses = Pop(@, key),
                       !.students = delete_course_cascade(@, key)]
    ELSE store

\* key is the first column of the selected row of the table of that kind;
\* every handler that changes the keys of a collection refills its table
delete_selected(kind, key) ==
    /\ \/ kind = "student" /\ key \in DOMAIN DATA.students
       \/ kind = "instructor" /\ key \in DOMAIN DATA.instructors
       \/ kind = "course" /\ key \in DOMAIN DATA.courses
    /\ DATA' = delete_selected_store(DATA, kind, key)
    /\ UNCHANGED combo_instructor
    /\ UNCHANGED <<gvars, ovars, dvars, lvars>>

\* the document save_json writes: json.dump(DATA)
save_json_document(store) == store

\* documents in the persisted shape that another program or an editor wrote
ExternalDocs ==
    LET person(cs) == [name |-> "Ann", age |-> 20, email |-> "ann@u.edu",
                       courses |-> cs]
        cids == {<<>>, <<CidTable[1]>>}
        studs == {<<>>, <<SidTable[1]>>}
        smaps == {[k \in {SidTable[1]} |-> person(cs)] : cs \in cids}
        imaps == {EmptyMap} \cup {[k \in {IidTable[1]} |-> person(cs)] : cs \in cids}
        cmaps == {EmptyMap} \cup
                 {[k \in {CidTable[1]} |->
                     [name |-> "Algo", instructor_id |-> i, students |-> ss]] :
                  i \in {None, IidTable[1]}, ss \in studs}
    IN {[students |-> sm, instructors |-> im, courses |-> cm] :
          sm \in smaps, im \in imaps, cm \in cmaps}

\* the store load_json installs for a document: DATA = json.load(f)
load_json_store(doc) == doc

load_json(doc) ==
    /\ DATA' = load_json_store(doc)
    /\ UNCHANGED combo_instructor
    /\ UNCHANGED <<gvars, ovars, dvars, lvars>>

\* the names of the courses among cids that the store holds
RECURSIVE course_names(_, _)
course_names(store, cids) ==
    IF cids = <<>> THEN <<>>
    ELSE IF Head(cids) \in DOMAIN store.courses
         THEN <<store.courses[Head(cids)].name>>
                 \o course_names(store, Tail(cids))
         ELSE course_names(store, Tail(cids))

\* the list of course ids without their names
_student_course_tokens_ids_only(store, sid) == store.students[sid].courses

_student_course_tokens(store, sid) ==
    LET cids == store.students[sid].courses
    IN cids \o course_names(store, cids)

\* q = (query or '').lower().strip()
search_query(query) == strip(lower(Text(query)))

\* the ids of the rows refresh_students(query) puts in the Students table
refresh_students(store, query) ==
    LET q == search_query(query)
        hay(sid) == lower(join(<<sid, store.students[sid].name,
                                   store.students[sid].email>>
                                 \o _student_course_tokens(store, sid)))
    IN {sid \in DOMAIN store.students : ~(q # <<>> /\ ~contains(hay(sid), q))}

\* str(value) as an f-string prints it
format_value(v) == IF v = None THEN "None" ELSE v

\* the ids of the rows refresh_courses(query) puts in the Courses table
refresh_courses(store, query) ==
    LET q == search_query(query)
        display(cid) == join(<<cid, store.courses[cid].name,
                               format_value(store.courses[cid].instructor_id)>>)
    IN {cid \in DOMAIN store.courses :
           ~(q # <<>> /\ ~contains(lower(display(cid)), q))}

\* texts typed into the search boxes
SearchTexts == {"", "Algo", " ALGO ", "none", "i1", "1 a"}

\* the handlers other than load_json
KOps ==
    \/ \E sid \in SIDs \cup {" "}, name \in NameTexts, age \in AgeTexts,
          email \in EmailTexts : add_student(sid, name, age, email)
    \/ \E iid \in IIDs \cup {" "}, name \in NameTexts, age \in AgeTexts,
          email \in EmailTexts : add_instructor(iid, name, age, email)
    \/ \E cid \in CIDs \cup {" "}, name \in CourseNameTexts : add_course(cid, name)
    \/ \E iid \in IIDs : select_instructor(iid)
    \/ \E cid \in CIDs \cup {""} : assign_instructor(cid)
    \/ \E sid \in SIDs \cup {""}, cid \in CIDs \cup {""} : register_student(sid, cid)
    \/ \E kind \in {"student", "instructor", "course"} :
          \E key \in SIDs \cup IIDs \cup CIDs : delete_selected(kind, key)

KLoad == \E doc \in ExternalDocs \cup {save_json_document(DATA)} : load_json(doc)

(***************************************************************************)
(* Program 2: the object-graph app (Tkinter_documented.py, classes.py).    *)
(***************************************************************************)
MaxStudentObjs == 1
MaxInstructorObjs == 2
MaxCourseObjs == 2
MaxListLen == 2

NoRef == 0

DefaultStudentAge == 22
DefaultInstructorAge == 35
DefaultIdOffset == 100

Min(S) == CHOOSE m \in S : \A n \in S : m <= n

\* x or default, for texts
Or(t, default) == IF t = "" THEN default ELSE t

\* str.isdigit() on the age texts of the model
IsDigit(t) == t \in {"20", "21"}

generate_default_id(prefix, collection_size) ==
    prefix \o ToString(collection_size + DefaultIdOffset)

\* the asserts of Person.__init__: the object is built iff all of them hold
Person_init_ok(name, age, email) ==
    /\ name # ""
    /\ age >= 0
    /\ \E k \in 1..Len(Chars(email)) : Chars(email)[k] = "@"
    /\ Chars(email)[1] # "@"

Student_init_ok(name, age, email, student_id) ==
    student_id # "" /\ Person_init_ok(name, age, email)

Instructor_init_ok(name, age, email, instructor_id) ==
    instructor_id # "" /\ Person_init_ok(name, age, email)

Course_init_ok(course_id, course_name) == course_id # "" /\ course_name # ""

\* a reference for a new object: the lowest one not in use
FreshRef(objs) ==
    CHOOSE r \in 1..(Cardinality(DOMAIN objs) + 1) :
        r \notin DOMAIN objs /\ \A q \in 1..(r - 1) : q \in DOMAIN objs

\* the graph as one value: the three lists and the three kinds of objects
Graph == [sr |-> student_records, il |-> instructor_list, cc |-> course_catalog,
          so |-> sobj, io |-> iobj, co |-> cobj]

EmptyGraph == [sr |-> <<>>, il |-> <<>>, cc |-> <<>>,
               so |-> EmptyMap, io |-> EmptyMap, co |-> EmptyMap]

\* the objects a program can still reach from the three lists
RECURSIVE Reachable(_, _, _, _)
Reachable(g, S, I, C) ==
    LET C2 == C \cup UNION {Range(g.so[x].registered_courses) : x \in S}
                \cup UNION {Range(g.io[x].assigned_courses) : x \in I}
        S2 == S \cup UNION {Range(g.co[x].enrolled_students) : x \in C}
        I2 == I \cup ({g.co[x].instructor : x \in C} \ {NoRef})
    IN IF S2 = S /\ I2 = I /\ C2 = C THEN [S |-> S, I |-> I, C |-> C]
       ELSE Reachable(g, S2, I2, C2)

\* unreachable objects are gone (reference counting frees them)
Collect(g) ==
    LET live == Reachable(g, Range(g.sr), Range(g.il), Range(g.cc))
    IN [g EXCEPT !.so = [x \in live.S |-> g.so[x]],
                 !.io = [x \in live.I |-> g.io[x]],
                 !.co = [x \in live.C |-> g.co[x]]]

\* the elements of a set of references, in increasing order
RECURSIVE SortedSeq(_)
SortedSeq(S) == IF S = {} THEN <<>> ELSE <<Min(S)>> \o SortedSeq(S \ {Min(S)})

\* position of x in a list without repetitions
IndexOf(list, x) == CHOOSE k \in 1..Len(list) : list[k] = x

\* References are renamed so that the objects of a list are 1, 2, ... in list
\* order, followed by the other reachable objects: which number stands for an
\* object is not observable by the program.
Renumber(g) ==
    LET os == g.sr \o SortedSeq(DOMAIN g.so \ Range(g.sr))
        oi == g.il \o SortedSeq(DOMAIN g.io \ Range(g.il))
        oc == g.cc \o SortedSeq(DOMAIN g.co \ Range(g.cc))
        rs(list) == [k \in 1..Len(list) |-> IndexOf(os, list[k])]
        rc(list) == [k \in 1..Len(list) |-> IndexOf(oc, list[k])]
    IN [sr |-> rs(g.sr), il |-> [k \in 1..Len(g.il) |-> k], cc |-> rc(g.cc),
        so |-> [n \in 1..Len(os) |->
                  [g.so[os[n]] EXCEPT !.registered_courses = rc(@)]],
        io |-> [n \in 1..Len(oi) |->
                  [g.io[oi[n]] EXCEPT !.assigned_courses = rc(@)]],
        co |-> [n \in 1..Len(oc) |->
                  [g.co[oc[n]] EXCEPT
                      !.enrolled_students = rs(@),
                      !.instructor = IF @ = NoRef THEN NoRef ELSE IndexOf(oi, @)]]]

\* the program state becomes the graph n
Become(n) ==
    /\ student_records' = n.sr
    /\ instructor_list' = n.il
    /\ course_catalog' = n.cc
    /\ sobj' = n.so
    /\ iobj' = n.io
    /\ cobj' = n.co

\* the program state becomes the graph g, unreachable objects freed
Install(g) ==
    \E live \in {Collect(g)} : \E n \in {Renumber(live)} : Become(n)

GInit ==
    /\ student_records = <<>>
    /\ instructor_list = <<>>
    /\ course_catalog = <<>>
    /\ sobj = EmptyMap
    /\ iobj = EmptyMap
    /\ cobj = EmptyMap

\* first person of the list with that name, or NoRef
find_person_by_name(collection, objs, target_name) ==
    LET hits == {k \in 1..Len(collection) : objs[collection[k]].name = target_name}
    IN IF hits = {} THEN NoRef ELSE collection[Min(hits)]

\* first course of the catalog with that course_name, or NoRef
find_course_by_name(g, target_name) ==
    LET hits == {k \in 1..Len(g.cc) : g.co[g.cc[k]].course_name = target_name}
    IN IF hits = {} THEN NoRef ELSE g.cc[Min(hits)]

\* classes.py: Student.register_course(course)
Student_register_course(g, s, c) ==
    [g EXCEPT !.so[s].registered_courses = Append(@, c)]

\* classes.py: Course.add_student(student)
Course_add_student(g, c, s) ==
    [g EXCEPT !.co[c].enrolled_students = Append(@, s)]

\* classes.py: Instructor.assign_course(course)
Instructor_assign_course(g, i, c) ==
    [g EXCEPT !.io[i].assigned_courses = Append(@, c)]

\* Student(name, age, email, sid) appended to student_records
new_student(g, name, age, email, sid) ==
    LET r == FreshRef(g.so)
    IN [g EXCEPT !.so = Put(@, r, [name |-> name, age |-> age, _email |-> email,
                                    student_id |-> sid,
                                    registered_courses |-> <<>>]),
                 !.sr = Append(@, r)]

\* Instructor(name, age, email, iid) appended to instructor_list
new_instructor(g, name, age, email, iid) ==
    LET r == FreshRef(g.io)
    IN [g EXCEPT !.io = Put(@, r, [name |-> name, age |-> age, _email |-> email,
                                    instructor_id |-> iid,
                                    assigned_courses |-> <<>>]),
                 !.il = Append(@, r)]

\* Course(cid, cname, instructor) appended to course_catalog, without the
\* call of assign_course
new_course_unassigned(g, cid, cname, inst) ==
    LET r == FreshRef(g.co)
    IN [g EXCEPT !.co = Put(@, r, [course_id |-> cid, course_name |-> cname,
                                   instructor |-> inst,
                                   enrolled_students |-> <<>>]),
                 !.cc = Append(@, r)]

\* Course(cid, cname, instructor) appended to course_catalog, and assigned to
\* the instructor when there is one
new_course(g, cid, cname, inst) ==
    LET r == FreshRef(g.co)
        g1 == [g EXCEPT !.co = Put(@, r, [course_id |-> cid, course_name |-> cname,
                                          instructor |-> inst,
                                          enrolled_students |-> <<>>]),
                        !.cc = Append(@, r)]
    IN IF inst # NoRef THEN Instructor_assign_course(g1, inst, r) ELSE g1

G_add_student(name_in, age_in, email_in, id_in) ==
    LET name == Or(name_in, "John Doe")
        age == IF age_in # "" /\ IsDigit(age_in) THEN IntOf(age_in)
               ELSE DefaultStudentAge
        email == Or(email_in, "student@university.edu")
        sid == Or(id_in, generate_default_id("STU", Len(student_records)))
    IN /\ Len(student_records) < MaxStudentObjs
       /\ IF Student_init_ok(name, age, email, sid)
          THEN Install(new_student(Graph, name, age, email, sid))
          ELSE UNCHANGED gvars
       /\ UNCHANGED <<kvars, ovars, dvars, lvars>>

G_add_instructor(name_in, age_in, email_in, id_in) ==
    LET name == Or(name_in, "Dr. Smith")
        age == IF age_in # "" /\ IsDigit(age_in) THEN IntOf(age_in)
               ELSE DefaultInstructorAge
        email == Or(email_in, "professor@university.edu")
        iid == Or(id_in, generate_default_id("PROF", Len(instructor_list)))
    IN /\ Len(instructor_list) < MaxInstructorObjs
       /\ IF Instructor_init_ok(name, age, email, iid)
          THEN Install(new_instructor(Graph, name, age, email, iid))
          ELSE UNCHANGED gvars
       /\ UNCHANGED <<kvars, ovars, dvars, lvars>>

add_new_course(cid_in, cname_in, instructor_selection) ==
    LET cid == Or(cid_in, generate_default_id("COURSE", Len(course_catalog)))
        cname == Or(cname_in, "Introduction to Computing")
        selected_instructor ==
            find_person_by_name(instructor_list, iobj, instructor_selection)
    IN /\ Len(course_catalog) < MaxCourseObjs
       /\ selected_instructor # NoRef
             => Len(iobj[selected_instructor].assigned_courses) < MaxListLen
       /\ IF Course_init_ok(cid, cname)
          THEN Install(new_course(Graph, cid, cname, selected_instructor))
          ELSE UNCHANGED gvars
       /\ UNCHANGED <<kvars, ovars, dvars, lvars>>

register_student_for_course(student_selection, course_selection) ==
    LET selected_student ==
            find_person_by_name(student_records, sobj, student_selection)
        selected_course == find_course_by_name(Graph, course_selection)
    IN /\ IF selected_student # NoRef /\ selected_course # NoRef
          THEN /\ Len(sobj[selected_student].registered_courses) < MaxListLen
               /\ Len(cobj[selected_course].enrolled_students) < MaxListLen
               /\ Install(Course_add_student(
                     Student_register_course(Graph, selected_student,
                                             selected_course),
                     selected_course, selected_student))
          ELSE UNCHANGED gvars
       /\ UNCHANGED <<kvars, ovars, dvars, lvars>>

\* the graph assign_instructor_to_course leaves: g itself unless both
\* selections resolve
assign_instructor_to_course_graph(g, instructor_selection, course_selection) ==
    LET selected_instructor ==
            find_person_by_name(g.il, g.io, instructor_selection)
        selected_course == find_course_by_name(g, course_selection)
    IN IF selected_instructor # NoRef /\ selected_course # NoRef
       THEN [Instructor_assign_course(g, selected_instructor, selected_course)
               EXCEPT !.co[selected_course].instructor = selected_instructor]
       ELSE g

assign_instructor_to_course(instructor_selection, course_selection) ==
    LET selected_instructor ==
            find_person_by_name(instructor_list, iobj, instructor_selection)
        selected_course == find_course_by_name(Graph, course_selection)
    IN /\ IF selected_instructor # NoRef /\ selected_course # NoRef
          THEN /\ Len(iobj[selected_instructor].assigned_courses) < MaxListLen
               /\ Install(assign_instructor_to_course_graph(
                             Graph, instructor_selection, course_selection))
          ELSE UNCHANGED gvars
       /\ UNCHANGED <<kvars, ovars, dvars, lvars>>

\* the list without the elements whose key (under keyOf) is record_id
RECURSIVE FilterOut(_, _, _)
FilterOut(list, keyOf, record_id) ==
    IF list = <<>> THEN <<>>
    ELSE IF keyOf[Head(list)] = record_id
         THEN FilterOut(Tail(list), keyOf, record_id)
         ELSE <<Head(list)>> \o FilterOut(Tail(list), keyOf, record_id)

student_id_of(g) == [x \in DOMAIN g.so |-> g.so[x].student_id]
instructor_id_of(g) == [x \in DOMAIN g.io |-> g.io[x].instructor_id]
course_id_of(g) == [x \in DOMAIN g.co |-> g.co[x].course_id]

\* delete_selected_record, record_type "Student", with the loop over
\* course_catalog left out
delete_student_record_list_only(g, record_id) ==
    [g EXCEPT !.sr = FilterOut(@, student_id_of(g), record_id)]

\* delete_selected_record, record_type "Student"
delete_student_record(g, record_id) ==
    [g EXCEPT
       !.sr = FilterOut(@, student_id_of(g), record_id),
       !.co = [x \in DOMAIN g.co |->
                 IF x \in Range(g.cc)
                 THEN [g.co[x] EXCEPT !.enrolled_students =
                          FilterOut(@, student_id_of(g), record_id)]
                 ELSE g.co[x]]]

\* delete_selected_record, record_type "Instructor"
delete_instructor_record(g, record_id) ==
    [g EXCEPT
       !.il = FilterOut(@, instructor_id_of(g), record_id),
       !.co = [x \in DOMAIN g.co |->
                 IF /\ x \in Range(g.cc)
                    /\ g.co[x].instructor # NoRef
                    /\ g.io[g.co[x].instructor].instructor_id = record_id
                 THEN [g.co[x] EXCEPT !.instructor = NoRef]
                 ELSE g.co[x]]]

\* delete_selected_record, record_type "Course"
delete_course_record(g, record_id) ==
    [g EXCEPT
       !.cc = FilterOut(@, course_id_of(g), record_id),
       !.so = [x \in DOMAIN g.so |->
                 IF x \in Range(g.sr)
                 THEN [g.so[x] EXCEPT !.registered_courses =
                          FilterOut(@, course_id_of(g), record_id)]
                 ELSE g.so[x]],
       !.io = [x \in DOMAIN g.io |->
                 IF x \in Range(g.il)
                 THEN [g.io[x] EXCEPT !.assigned_courses =
                          FilterOut(@, course_id_of(g), record_id)]
                 ELSE g.io[x]]]

\* the selected row of the table gives the record type and id; the table
\* shows every record of the three lists
delete_selected_record(record_type, record_id) ==
    /\ \/ /\ record_type = "Student"
          /\ \E x \in Range(student_records) : sobj[x].student_id = record_id
          /\ Install((delete_student_record(Graph, record_id)))
       \/ /\ record_type = "Instructor"
          /\ \E x \in Range(instructor_list) : iobj[x].instructor_id = record_id
          /\ Install((delete_instructor_record(Graph, record_id)))
       \/ /\ record_type = "Course"
          /\ \E x \in Range(course_catalog) : cobj[x].course_id = record_id
          /\ Install((delete_course_record(Graph, record_id)))
    /\ UNCHANGED <<kvars, ovars, dvars, lvars>>

\* dict[key] = entry on an insertion-ordered dict; an entry carries its key
DictPut(d, entry) ==
    IF \E k \in 1..Len(d) : d[k].key = entry.key
    THEN [k \in 1..Len(d) |-> IF d[k].key = entry.key THEN entry ELSE d[k]]
    ELSE Append(d, entry)

RECURSIVE DictFrom(_, _)
DictFrom(d, entries) ==
    IF entries = <<>> THEN d
    ELSE DictFrom(DictPut(d, Head(entries)), Tail(entries))

\* [x.key for x in list]
IdsOf(list, keyOf) == [k \in 1..Len(list) |-> keyOf[list[k]]]

\* the id-keyed document save_all_data writes to data2.json and data3.json
save_all_data_document(g) ==
    [students |->
        DictFrom(<<>>, [k \in 1..Len(g.sr) |->
            LET s == g.so[g.sr[k]]
            IN [key |-> s.student_id, name |-> s.name, age |-> s.age,
                email |-> s._email,
                courses |-> IdsOf(s.registered_courses, course_id_of(g))]]),
     instructors |->
        DictFrom(<<>>, [k \in 1..Len(g.il) |->
            LET i == g.io[g.il[k]]
            IN [key |-> i.instructor_id, name |-> i.name, age |-> i.age,
                email |-> i._email,
                courses |-> IdsOf(i.assigned_courses, course_id_of(g))]]),
     courses |->
        DictFrom(<<>>, [k \in 1..Len(g.cc) |->
            LET c == g.co[g.cc[k]]
            IN [key |-> c.course_id, name |-> c.course_name,
                instructor_id |-> IF c.instructor # NoRef
                                  THEN g.io[c.instructor].instructor_id
                                  ELSE None,
                students |-> IdsOf(c.enrolled_students, student_id_of(g))]])]

\* {x.key: x for x in list}.get(id): the last object of the list with that id
lookup(list, keyOf, id) ==
    LET hits == {k \in 1..Len(list) : keyOf[list[k]] = id}
    IN IF hits = {} THEN NoRef ELSE list[CHOOSE m \in hits : \A n \in hits : n <= m]

\* load_all_data, the loop over DATA["instructors"]
RECURSIVE load_instructors(_, _)
load_instructors(g, entries) ==
    IF entries = <<>> THEN g
    ELSE LET d == Head(entries)
         IN load_instructors(new_instructor(g, d.name, d.age, d.email, d.key),
                             Tail(entries))

\* load_all_data, the loop over DATA["courses"]
RECURSIVE load_courses(_, _)
load_courses(g, entries) ==
    IF entries = <<>> THEN g
    ELSE LET d == Head(entries)
             inst == IF d.instructor_id # None /\ d.instructor_id # ""
                     THEN lookup(g.il, instructor_id_of(g), d.instructor_id)
                     ELSE NoRef
         IN load_courses(new_course(g, d.key, d.name, inst), Tail(entries))

\* load_registrations with the loop ended at the first course id that is not
\* in the catalog (break where the code goes on to the next id)
RECURSIVE load_registrations_break(_, _, _)
load_registrations_break(g, s, cids) ==
    IF cids = <<>> THEN g
    ELSE LET c == lookup(g.cc, course_id_of(g), Head(cids))
         IN IF c # NoRef
            THEN load_registrations_break(
                    Course_add_student(Student_register_course(g, s, c), c, s),
                    s, Tail(cids))
            ELSE g

\* load_all_data, the loop over a student's "courses"
RECURSIVE load_registrations(_, _, _)
load_registrations(g, s, cids) ==
    IF cids = <<>> THEN g
    ELSE LET c == lookup(g.cc, course_id_of(g), Head(cids))
         IN load_registrations(
               IF c # NoRef
               THEN Course_add_student(Student_register_course(g, s, c), c, s)
               ELSE g,
               s, Tail(cids))

\* load_all_data, the loop over DATA["students"]
RECURSIVE load_students(_, _)
load_students(g, entries) ==
    IF entries = <<>> THEN g
    ELSE LET d == Head(entries)
             g1 == new_student(g, d.name, d.age, d.email, d.key)
             s == g1.sr[Len(g1.sr)]
         IN load_students(load_registrations(g1, s, d.courses), Tail(entries))

\* the store load_all_data builds from an id-keyed document: the three lists
\* are cleared and rebuilt, instructors, then courses, then students; the
\* objects of the old store are not reachable afterwards, and the new ones
\* are numbered in list order
load_all_data_store(doc) ==
    load_students(
        load_courses(load_instructors(EmptyGraph, doc.instructors), doc.courses),
        doc.students)

\* every constructor call of load_all_data passes its asserts
doc_constructs(doc) ==
    /\ \A k \in 1..Len(doc.instructors) :
          LET d == doc.instructors[k]
          IN Instructor_init_ok(d.name, d.age, d.email, d.key)
    /\ \A k \in 1..Len(doc.courses) :
          Course_init_ok(doc.courses[k].key, doc.courses[k].name)
    /\ \A k \in 1..Len(doc.students) :
          LET d == doc.students[k]
          IN Student_init_ok(d.name, d.age, d.email, d.key)

\* id-keyed documents that another program or an editor wrote: one student,
\* at most one instructor and two courses, and references that may name ids
\* the document does not hold
GraphDocs ==
    LET stud(n, cs) == [key |-> "STU100", name |-> n, age |-> DefaultStudentAge,
                        email |-> "student@university.edu", courses |-> cs]
        inst == [key |-> "PROF100", name |-> "Dr. Smith",
                 age |-> DefaultInstructorAge,
                 email |-> "professor@university.edu", courses |-> <<>>]
        algo(i) == [key |-> "COURSE100", name |-> "Algo",
                    instructor_id |-> i, students |-> <<>>]
        intro == [key |-> "COURSE101", name |-> "Introduction to Computing",
                  instructor_id |-> None, students |-> <<>>]
        listed == {<<>>, <<"COURSE100">>, <<"COURSE101", "COURSE100">>,
                   <<"COURSE100", "COURSE101">>}
        named == {None, "PROF100", "PROF101"}
    IN {[students |-> <<stud(n, cs)>>, instructors |-> im, courses |-> cm] :
          n \in {"Ann", "John Doe"}, cs \in listed,
          im \in {<<>>, <<inst>>},
          cm \in {<<>>} \cup {<<algo(i)>> : i \in named}
                       \cup {<<algo(i), intro>> : i \in named}}

\* load_all_data when data2.json exists and holds doc
load_all_data(doc) ==
    /\ doc_constructs(doc)
    /\ \E n \in {load_all_data_store(doc)} : Become(n)
    /\ UNCHANGED <<kvars, ovars, dvars, lvars>>

\* the first element of list whose key (under keyOf) is record_id, or NoRef
RECURSIVE first_with_id(_, _, _)
first_with_id(list, keyOf, record_id) ==
    IF list = <<>> THEN NoRef
    ELSE IF keyOf[Head(list)] = record_id THEN Head(list)
         ELSE first_with_id(Tail(list), keyOf, record_id)

\* the body of the loops of edit_selected_record: each field of the form
\* that is filled in is assigned on its own
edit_person_fields(p, new_name, age_text, new_email) ==
    LET p1 == IF new_name # "" THEN [p EXCEPT !.name = new_name] ELSE p
        p2 == IF age_text # "" /\ IsDigit(age_text)
              THEN [p1 EXCEPT !.age = IntOf(age_text)] ELSE p1
    IN IF new_email # "" THEN [p2 EXCEPT !._email = new_email] ELSE p2

\* edit_selected_record on the store g
edit_selected_record_graph(g, record_type, record_id, new_name, age_text, new_email) ==
    IF record_type = "Student"
    THEN LET x == first_with_id(g.sr, student_id_of(g), record_id)
         IN IF x = NoRef THEN g
            ELSE [g EXCEPT !.so[x] =
                     edit_person_fields(@, new_name, age_text, new_email)]
    ELSE IF record_type = "Instructor"
    THEN LET x == first_with_id(g.il, instructor_id_of(g), record_id)
         IN IF x = NoRef THEN g
            ELSE [g EXCEPT !.io[x] =
                     edit_person_fields(@, new_name, age_text, new_email)]
    ELSE g

\* the rows of the data table
TableRows(g) ==
    {<<"Student", g.so[g.sr[k]].student_id>> : k \in 1..Len(g.sr)}
    \cup {<<"Instructor", g.io[g.il[k]].instructor_id>> : k \in 1..Len(g.il)}
    \cup {<<"Course", g.co[g.cc[k]].course_id>> : k \in 1..Len(g.cc)}

\* the rows perform_search leaves in the data table
perform_search(g, query_text, search_type) ==
    LET query == lower(Text(query_text))
        hit(t) == contains(lower(Text(t)), query)
    IN IF query = <<>> THEN TableRows(g)
       ELSE IF search_type = "Name"
       THEN {<<"Student", g.so[g.sr[k]].student_id>> :
                k \in {j \in 1..Len(g.sr) : hit(g.so[g.sr[j]].name)}}
            \cup {<<"Instructor", g.io[g.il[k]].instructor_id>> :
                k \in {j \in 1..Len(g.il) : hit(g.io[g.il[j]].name)}}
            \cup {<<"Course", g.co[g.cc[k]].course_id>> :
                k \in {j \in 1..Len(g.cc) : hit(g.co[g.cc[j]].course_name)}}
       ELSE IF search_type = "ID"
       THEN {<<"Student", g.so[g.sr[k]].student_id>> :
                k \in {j \in 1..Len(g.sr) : hit(g.so[g.sr[j]].student_id)}}
            \cup {<<"Instructor", g.io[g.il[k]].instructor_id>> :
                k \in {j \in 1..Len(g.il) : hit(g.io[g.il[j]].instructor_id)}}
            \cup {<<"Course", g.co[g.cc[k]].course_id>> :
                k \in {j \in 1..Len(g.cc) : hit(g.co[g.cc[j]].course_id)}}
       ELSE {}

\* texts typed into the search box of the object-graph app
GSearchTexts == {"", "algo", "Algo", "stu", "course100"}

\* Edit Selected on the selected row of the data table
edit_selected_record(record_type, record_id, new_name, age_text, new_email) ==
    /\ <<record_type, record_id>> \in TableRows(Graph)
    /\ Install(edit_selected_record_graph(Graph, record_type, record_id,
                                          new_name, age_text, new_email))
    /\ UNCHANGED <<kvars, ovars, dvars, lvars>>

\* texts typed into the forms and pickers of the object-graph app
PersonNameTexts == {"", "Ann"}
GAgeTexts == {"", "-1"}
GEmailTexts == {"", "ann.u.edu", "@u.edu"}
StudentIdTexts == {""}
InstructorIdTexts == {"", "PROF101"}
CourseIdTexts == {""}
GCourseNameTexts == {"", "Algo"}
StudentSelections == {"", "Ann", "John Doe"}
InstructorSelections == {"", "Ann", "Dr. Smith"}
CourseSelections == {"", "Algo", "Introduction to Computing"}
RecordIds == {"STU100", "STU101", "PROF100", "PROF101", "COURSE100", "COURSE101"}

\* the three forms that add a record
GAddOps ==
    \/ \E name \in PersonNameTexts, age \in GAgeTexts, email \in GEmailTexts,
          id \in StudentIdTexts : G_add_student(name, age, email, id)
    \/ \E name \in PersonNameTexts, age \in GAgeTexts, email \in GEmailTexts,
          id \in InstructorIdTexts : G_add_instructor(name, age, email, id)
    \/ \E cid \in CourseIdTexts, cname \in GCourseNameTexts,
          isel \in InstructorSelections : add_new_course(cid, cname, isel)

\* the buttons that work on the records the store holds
GLinkOps ==
    \/ \E ssel \in StudentSelections, csel \in CourseSelections :
          register_student_for_course(ssel, csel)
    \/ \E isel \in InstructorSelections, csel \in CourseSelections :
          assign_instructor_to_course(isel, csel)
    \/ \E record_type \in {"Student", "Instructor", "Course"} :
          \E record_id \in RecordIds :
             delete_selected_record(record_type, record_id)

GOps == GAddOps \/ GLinkOps

\* texts in the form when Edit Selected is pressed
EditNameTexts == {"", "Ann"}
EditAgeTexts == {"", "-1"}
EditEmailTexts == {"", "ann.u.edu"}

\* Edit Selected
GEdit ==
    \E record_type \in {"Student", "Instructor", "Course"} :
       \E record_id \in RecordIds :
          \E new_name \in EditNameTexts, age_text \in EditAgeTexts,
             new_email \in EditEmailTexts :
             edit_selected_record(record_type, record_id,
                                  new_name, age_text, new_email)

\* load_all_data without data2.json and data3.json: the loop over
\* course_catalog.json; the instructor is the first of instructor_list with
\* the course's instructor_id
RECURSIVE legacy_load_courses(_, _)
legacy_load_courses(g, entries) ==
    IF entries = <<>> THEN g
    ELSE LET d == Head(entries)
             inst == first_with_id(g.il, instructor_id_of(g), d.instructor_id)
         IN legacy_load_courses(new_course(g, d.key, d.name, inst), Tail(entries))

\* the store load_all_data leaves when only the per-entity files exist: a
\* list is cleared and rebuilt if its file exists, and left alone otherwise;
\* an entry's key is its instructor_id, course_id or student_id
legacy_load_store(g, files) ==
    LET g1 == IF files.instructors.exists
              THEN load_instructors([g EXCEPT !.il = <<>>], files.instructors.data)
              ELSE g
        g2 == IF files.courses.exists
              THEN legacy_load_courses([g1 EXCEPT !.cc = <<>>], files.courses.data)
              ELSE g1
    IN IF files.students.exists
       THEN load_students([g2 EXCEPT !.sr = <<>>], files.students.data)
       ELSE g2

\* no list of an object is longer than MaxListLen
ListsWithinBound(g) ==
    /\ \A x \in DOMAIN g.so : Len(g.so[x].registered_courses) <= MaxListLen
    /\ \A x \in DOMAIN g.io : Len(g.io[x].assigned_courses) <= MaxListLen
    /\ \A x \in DOMAIN g.co : Len(g.co[x].enrolled_students) <= MaxListLen

\* load_all_data when neither data2.json nor data3.json exists
load_all_data_legacy(files) ==
    /\ doc_constructs([students |-> files.students.data,
                       instructors |-> files.instructors.data,
                       courses |-> files.courses.data])
    /\ \E n \in {legacy_load_store(Graph, files)} :
          ListsWithinBound(n) /\ Install(n)
    /\ UNCHANGED <<kvars, ovars, dvars, lvars>>

\* the per-entity files: each exists or not
LegacyFiles ==
    LET absent == [exists |-> FALSE, data |-> <<>>]
        file(entries) == [exists |-> TRUE, data |-> entries]
        inst == [key |-> "PROF100", name |-> "Dr. Smith",
                 age |-> DefaultInstructorAge,
                 email |-> "professor@university.edu"]
        algo(i) == [key |-> "COURSE100", name |-> "Algo", instructor_id |-> i]
        stud(cs) == [key |-> "STU100", name |-> "John Doe",
                     age |-> DefaultStudentAge,
                     email |-> "student@university.edu", courses |-> cs]
    IN {[instructors |-> im, courses |-> cm, students |-> sm] :
          im \in {absent, file(<<inst>>)},
          cm \in {absent, file(<<algo("PROF100")>>)},
          sm \in {absent, file(<<stud(<<"COURSE100">>)>>)}}

GLoadLegacy == \E files \in LegacyFiles : load_all_data_legacy(files)

\* Save Data followed by Load Data: data2.json holds what save_all_data wrote
GSaveLoad == load_all_data(save_all_data_document(Graph))

\* Load Data on a data2.json that came from elsewhere
GLoadFile == \E doc \in GraphDocs : load_all_data(doc)

(***************************************************************************)
(* Program 3: the dataclass library (submission/part1_oop.py) and a        *)
(* program that builds objects with it and calls their methods.            *)
(***************************************************************************)
MaxOopStudents == 1
MaxOopInstructors == 2
MaxOopCourses == 2

\* nesting depth at which the interpreter gives up on a recursion
RecursionLimit == 12

\* An object is its position in the list of its class. An element of
\* registered_courses or assigned_courses is a Course object or, after
\* from_json, a course id string.
Obj(r) == [raw |-> FALSE, ref |-> r, id |-> ""]
RawId(t) == [raw |-> TRUE, ref |-> NoRef, id |-> t]

\* `course in list`: ids are unique, so the generated __eq__ of two different
\* objects is False at the id field, and a str never equals a Course
Holds(list, r) == \E k \in 1..Len(list) : ~list[k].raw /\ list[k].ref = r

OopStore == [students |-> oop_students, instructors |-> oop_instructors,
             courses |-> oop_courses]

EmptyOopStore == [students |-> <<>>, instructors |-> <<>>, courses |-> <<>>]

OBecome(st) ==
    /\ oop_students' = st.students
    /\ oop_instructors' = st.instructors
    /\ oop_courses' = st.courses

OInit ==
    /\ oop_students = <<>>
    /\ oop_instructors = <<>>
    /\ oop_courses = <<>>
    /\ to_json_outcome = "not called"

\* Course.add_student(student)
P1_add_student(st, c, s) ==
    IF s \in Range(st.courses[c].enrolled_students) THEN st
    ELSE [st EXCEPT !.courses[c].enrolled_students = Append(@, s)]

\* Student.register_course(course)
P1_register_course(st, s, c) ==
    IF Holds(st.students[s].registered_courses, c) THEN st
    ELSE P1_add_student(
            [st EXCEPT !.students[s].registered_courses = Append(@, Obj(c))],
            c, s)

\* Instructor.assign_course(course)
P1_assign_course(st, i, c) ==
    IF Holds(st.instructors[i].assigned_courses, c) THEN st
    ELSE [st EXCEPT !.instructors[i].assigned_courses = Append(@, Obj(c)),
                    !.courses[c].instructor = i]

\* Student(name, age, _email, student_id, registered_courses): the list is
\* empty by default, or the one the caller passes
P1_Student(registered_courses) ==
    /\ Len(oop_students) < MaxOopStudents
    /\ oop_students' = Append(oop_students,
          [name |-> "Ann", age |-> 20, _email |-> "ann@u.edu",
           student_id |-> SidTable[Len(oop_students) + 1],
           registered_courses |-> registered_courses])
    /\ UNCHANGED <<oop_instructors, oop_courses, to_json_outcome>>
    /\ UNCHANGED <<kvars, gvars, dvars, lvars>>

\* Instructor(name, age, _email, instructor_id)
P1_Instructor ==
    /\ Len(oop_instructors) < MaxOopInstructors
    /\ oop_instructors' = Append(oop_instructors,
          [name |-> "Ann", age |-> 20, _email |-> "ann@u.edu",
           instructor_id |-> IidTable[Len(oop_instructors) + 1],
           assigned_courses |-> <<>>])
    /\ UNCHANGED <<oop_students, oop_courses, to_json_outcome>>
    /\ UNCHANGED <<kvars, gvars, dvars, lvars>>

\* Course(course_id, course_name)
P1_Course ==
    /\ Len(oop_courses) < MaxOopCourses
    /\ oop_courses' = Append(oop_courses,
          [course_id |-> CidTable[Len(oop_courses) + 1], course_name |-> "Algo",
           instructor |-> NoRef, enrolled_students |-> <<>>])
    /\ UNCHANGED <<oop_students, oop_instructors, to_json_outcome>>
    /\ UNCHANGED <<kvars, gvars, dvars, lvars>>

\* student.register_course(course)
call_register_course(s, c) ==
    /\ OBecome(P1_register_course(OopStore, s, c))
    /\ UNCHANGED to_json_outcome
    /\ UNCHANGED <<kvars, gvars, dvars, lvars>>

\* course.add_student(student)
call_add_student(c, s) ==
    /\ OBecome(P1_add_student(OopStore, c, s))
    /\ UNCHANGED to_json_outcome
    /\ UNCHANGED <<kvars, gvars, dvars, lvars>>

\* instructor.assign_course(course)
call_assign_course(i, c) ==
    /\ OBecome(P1_assign_course(OopStore, i, c))
    /\ UNCHANGED to_json_outcome
    /\ UNCHANGED <<kvars, gvars, dvars, lvars>>

\* dataclasses.asdict: every field that is a dataclass object or a list of
\* them is converted in turn, one level deeper; TRUE when the conversion ends
\* before the interpreter's limit
RECURSIVE asdict_student(_, _, _)
RECURSIVE asdict_instructor(_, _, _)
RECURSIVE asdict_course(_, _, _)
asdict_student(st, s, depth) ==
    /\ depth <= RecursionLimit
    /\ \A k \in 1..Len(st.students[s].registered_courses) :
          LET e == st.students[s].registered_courses[k]
          IN e.raw \/ asdict_course(st, e.ref, depth + 1)

asdict_instructor(st, i, depth) ==
    /\ depth <= RecursionLimit
    /\ \A k \in 1..Len(st.instructors[i].assigned_courses) :
          LET e == st.instructors[i].assigned_courses[k]
          IN e.raw \/ asdict_course(st, e.ref, depth + 1)

asdict_course(st, c, depth) ==
    /\ depth <= RecursionLimit
    /\ st.courses[c].instructor = NoRef
          \/ asdict_instructor(st, st.courses[c].instructor, depth + 1)
    /\ \A k \in 1..Len(st.courses[c].enrolled_students) :
          asdict_student(st, st.courses[c].enrolled_students[k], depth + 1)

\* [c.course_id for c in list]: a str has no course_id
HasRaw(list) == \E k \in 1..Len(list) : list[k].raw

CourseIds(st, list) == [k \in 1..Len(list) |-> st.courses[list[k].ref].course_id]

\* how person_dump(p) ends, for each student and then each instructor
person_dump_outcomes(st) ==
    [k \in 1..Len(st.students) |->
        IF ~asdict_student(st, k, 1) THEN "RecursionError"
        ELSE IF HasRaw(st.students[k].registered_courses) THEN "AttributeError"
        ELSE "ok"]
    \o
    [k \in 1..Len(st.instructors) |->
        IF ~asdict_instructor(st, k, 1) THEN "RecursionError"
        ELSE IF HasRaw(st.instructors[k].assigned_courses) THEN "AttributeError"
        ELSE "ok"]

\* how to_json ends: with the first exception of a person_dump, or with the
\* file written
to_json_result(st) ==
    LET outs == person_dump_outcomes(st)
        bad == {k \in 1..Len(outs) : outs[k] # "ok"}
    IN IF bad = {} THEN "written" ELSE outs[Min(bad)]

\* the payload to_json writes
to_json_payload(st) ==
    [students |-> [k \in 1..Len(st.students) |->
        [st.students[k] EXCEPT !.registered_courses = CourseIds(st, @)]],
     instructors |-> [k \in 1..Len(st.instructors) |->
        [st.instructors[k] EXCEPT !.assigned_courses = CourseIds(st, @)]],
     courses |-> [k \in 1..Len(st.courses) |->
        LET c == st.courses[k]
        IN [course_id |-> c.course_id, course_name |-> c.course_name,
            instructor_id |-> IF c.instructor # NoRef
                              THEN st.instructors[c.instructor].instructor_id
                              ELSE None,
            enrolled_student_ids |->
                [j \in 1..Len(c.enrolled_students) |->
                    st.students[c.enrolled_students[j]].student_id]]]]

to_json ==
    /\ to_json_outcome' = to_json_result(OopStore)
    /\ UNCHANGED <<oop_students, oop_instructors, oop_courses>>
    /\ UNCHANGED <<kvars, gvars, dvars, lvars>>

\* next(x for x in instructors if x.instructor_id == id), NoRef when the id
\* is no key of inst_map
first_instructor(st, id) ==
    LET hits == {k \in 1..Len(st.instructors) : st.instructors[k].instructor_id = id}
    IN IF hits = {} THEN NoRef ELSE Min(hits)

first_student(st, id) ==
    LET hits == {k \in 1..Len(st.students) : st.students[k].student_id = id}
    IN IF hits = {} THEN NoRef ELSE Min(hits)

\* next((c for c in courses if c.course_id == cid), None)
first_course(st, id) ==
    LET hits == {k \in 1..Len(st.courses) : st.courses[k].course_id = id}
    IN IF hits = {} THEN NoRef ELSE Min(hits)

RawIds(ids) == [k \in 1..Len(ids) |-> RawId(ids[k])]

\* from_json, the loop over a course's enrolled_student_ids
RECURSIVE from_json_enroll(_, _, _)
from_json_enroll(st, c, sids) ==
    IF sids = <<>> THEN st
    ELSE LET s == first_student(st, Head(sids))
         IN from_json_enroll(
               IF s # NoRef
               THEN P1_register_course(P1_add_student(st, c, s), s, c)
               ELSE st,
               c, Tail(sids))

\* from_json, the loop over data["courses"]
RECURSIVE from_json_courses(_, _)
from_json_courses(st, entries) ==
    IF entries = <<>> THEN st
    ELSE LET d == Head(entries)
             c == Len(st.courses) + 1
             st1 == [st EXCEPT !.courses = Append(@,
                        [course_id |-> d.course_id, course_name |-> d.course_name,
                         instructor |-> NoRef, enrolled_students |-> <<>>])]
             i == IF d.instructor_id # None /\ d.instructor_id # ""
                  THEN first_instructor(st, d.instructor_id) ELSE NoRef
             st2 == IF i # NoRef
                    THEN [st1 EXCEPT
                            !.courses[c].instructor = i,
                            !.instructors[i].assigned_courses =
                                IF Holds(@, c) THEN @ ELSE Append(@, Obj(c))]
                    ELSE st1
         IN from_json_courses(from_json_enroll(st2, c, d.enrolled_student_ids),
                              Tail(entries))

\* from_json, the last loop, for one student: the str elements of
\* registered_courses are looked up and the courses found are registered
RECURSIVE from_json_resolve(_, _, _)
from_json_resolve(st, s, elems) ==
    IF elems = <<>> THEN st
    ELSE LET found == IF Head(elems).raw THEN first_course(st, Head(elems).id)
                      ELSE NoRef
         IN from_json_resolve(
               IF found # NoRef /\ ~Holds(st.students[s].registered_courses, found)
               THEN P1_register_course(st, s, found)
               ELSE st,
               s, Tail(elems))

RECURSIVE from_json_resolve_all(_, _)
from_json_resolve_all(st, s) ==
    IF s > Len(st.students) THEN st
    ELSE from_json_resolve_all(
            from_json_resolve(st, s, st.students[s].registered_courses), s + 1)

\* the objects from_json returns for a document
from_json_store(doc) ==
    LET st0 == [students |-> [k \in 1..Len(doc.students) |->
                   [doc.students[k] EXCEPT !.registered_courses = RawIds(@)]],
                instructors |-> [k \in 1..Len(doc.instructors) |->
                   [doc.instructors[k] EXCEPT !.assigned_courses = RawIds(@)]],
                courses |-> <<>>]
    IN from_json_resolve_all(from_json_courses(st0, doc.courses), 1)

\* documents in the shape to_json writes, with ids that may not resolve
OopDocs ==
    LET stud(cs) == [name |-> "Ann", age |-> 20, _email |-> "ann@u.edu",
                     student_id |-> "s1", registered_courses |-> cs]
        inst(cs) == [name |-> "Ann", age |-> 20, _email |-> "ann@u.edu",
                     instructor_id |-> "i1", assigned_courses |-> cs]
        crs(i, ss) == [course_id |-> "c1", course_name |-> "Algo",
                       instructor_id |-> i, enrolled_student_ids |-> ss]
    IN {[students |-> <<stud(cs)>>, instructors |-> im, courses |-> cm] :
          cs \in {<<>>, <<"c1">>, <<"c1", "c2">>},
          im \in {<<>>, <<inst(<<>>)>>, <<inst(<<"c1">>)>>},
          cm \in {<<>>} \cup {<<crs(i, ss)>> : i \in {None, "i1", "i2"},
                                               ss \in {<<>>, <<"s1">>}}}

\* objects = from_json(path), the file holding doc
from_json(doc) ==
    /\ OBecome(from_json_store(doc))
    /\ UNCHANGED to_json_outcome
    /\ UNCHANGED <<kvars, gvars, dvars, lvars>>

\* the calls a program makes on the objects it holds
OOps ==
    \/ \E cs \in {<<>>} \cup {<<Obj(c)>> : c \in 1..Len(oop_courses)} :
          P1_Student(cs)
    \/ P1_Instructor
    \/ P1_Course
    \/ \E s \in 1..Len(oop_students), c \in 1..Len(oop_courses) :
          call_register_course(s, c)
    \/ \E c \in 1..Len(oop_courses), s \in 1..Len(oop_students) :
          call_add_student(c, s)
    \/ \E i \in 1..Len(oop_instructors), c \in 1..Len(oop_courses) :
          call_assign_course(i, c)
    \/ to_json

\* from_json on a file from elsewhere, or on the file to_json has written
OFromJson ==
    \/ \E doc \in OopDocs : from_json(doc)
    \/ /\ to_json_result(OopStore) = "written"
       /\ from_json(to_json_payload(OopStore))

(***************************************************************************)
(* load_all_data of the object-graph app, statement by statement.  The     *)
(* handler runs to its end before another handler starts; loader.g is the  *)
(* store while the handler works on it, and loader.log lists the           *)
(* constructor calls made so far.                                          *)
(***************************************************************************)
\* a dictionary filled before the list has any element
dict_before_loop(list, keyOf) == EmptyMap

\* {x.key: x for x in list}: for a repeated id the last object wins
dict_by_id(list, keyOf) ==
    [id \in {keyOf[list[k]] : k \in 1..Len(list)} |-> lookup(list, keyOf, id)]

\* dict.get(id), and `id in dict` as a test of the result
dict_get(d, id) == IF id \in DOMAIN d THEN d[id] ELSE NoRef

LoaderIdle ==
    [pc |-> "idle", doc |-> [students |-> <<>>, instructors |-> <<>>,
                             courses |-> <<>>],
     k |-> 0, g |-> EmptyGraph, inst_lookup |-> EmptyMap,
     course_lookup |-> EmptyMap, log |-> <<>>]

LInit == loader = LoaderIdle

\* json.load(f), instructor_list.clear()
load_begin(doc) ==
    /\ loader.pc = "idle"
    /\ doc_constructs(doc)
    /\ loader' = [LoaderIdle EXCEPT !.pc = "instructors", !.doc = doc, !.k = 1,
                                    !.g = [Graph EXCEPT !.il = <<>>]]
    /\ UNCHANGED <<kvars, gvars, ovars, dvars>>

\* one round of the loop over DATA["instructors"]
load_instructor ==
    /\ loader.pc = "instructors"
    /\ loader.k <= Len(loader.doc.instructors)
    /\ LET d == loader.doc.instructors[loader.k]
       IN loader' = [loader EXCEPT
             !.g = new_instructor(@, d.name, d.age, d.email, d.key),
             !.k = @ + 1,
             !.log = Append(@, <<"Instructor", d.key>>)]
    /\ UNCHANGED <<kvars, gvars, ovars, dvars>>

\* course_catalog.clear(), inst_lookup = {...}
load_instructors_end ==
    /\ loader.pc = "instructors"
    /\ loader.k > Len(loader.doc.instructors)
    /\ loader' = [loader EXCEPT
          !.pc = "courses", !.k = 1,
          !.g = [@ EXCEPT !.cc = <<>>],
          !.inst_lookup = dict_by_id(loader.g.il, instructor_id_of(loader.g))]
    /\ UNCHANGED <<kvars, gvars, ovars, dvars>>

\* one round of the loop over DATA["courses"]
load_course ==
    /\ loader.pc = "courses"
    /\ loader.k <= Len(loader.doc.courses)
    /\ LET d == loader.doc.courses[loader.k]
           inst == IF d.instructor_id # None /\ d.instructor_id # ""
                   THEN dict_get(loader.inst_lookup, d.instructor_id)
                   ELSE NoRef
       IN loader' = [loader EXCEPT
             !.g = new_course(@, d.key, d.name, inst),
             !.k = @ + 1,
             !.log = Append(@, <<"Course", d.key>>)]
    /\ UNCHANGED <<kvars, gvars, ovars, dvars>>

\* student_records.clear(), course_lookup = {...}
load_courses_end ==
    /\ loader.pc = "courses"
    /\ loader.k > Len(loader.doc.courses)
    /\ loader' = [loader EXCEPT
          !.pc = "students", !.k = 1,
          !.g = [@ EXCEPT !.sr = <<>>],
          !.course_lookup = dict_by_id(loader.g.cc, course_id_of(loader.g))]
    /\ UNCHANGED <<kvars, gvars, ovars, dvars>>

\* the loop over a student's "courses", with course_lookup
RECURSIVE load_registrations_with(_, _, _, _)
load_registrations_with(g, s, cids, course_lookup) ==
    IF cids = <<>> THEN g
    ELSE LET c == dict_get(course_lookup, Head(cids))
         IN load_registrations_with(
               IF c # NoRef
               THEN Course_add_student(Student_register_course(g, s, c), c, s)
               ELSE g,
               s, Tail(cids), course_lookup)

\* one round of the loop over DATA["students"]
load_student ==
    /\ loader.pc = "students"
    /\ loader.k <= Len(loader.doc.students)
    /\ LET d == loader.doc.students[loader.k]
           g1 == new_student(loader.g, d.name, d.age, d.email, d.key)
           s == g1.sr[Len(g1.sr)]
       IN loader' = [loader EXCEPT
             !.g = load_registrations_with(g1, s, d.courses,
                                           loader.course_lookup),
             !.k = @ + 1,
             !.log = Append(@, <<"Student", d.key>>)]
    /\ UNCHANGED <<kvars, gvars, ovars, dvars>>

\* update_dropdown_lists(), refresh_data_table(), return
load_end ==
    /\ loader.pc = "students"
    /\ loader.k > Len(loader.doc.students)
    /\ Install(loader.g)
    /\ loader' = LoaderIdle
    /\ UNCHANGED <<kvars, ovars, dvars>>

GLoadSteps ==
    \/ \E doc \in GraphDocs : load_begin(doc)
    \/ load_instructor
    \/ load_instructors_end
    \/ load_course
    \/ load_courses_end
    \/ load_student
    \/ load_end

(***************************************************************************)
(* Program 4: the SQLite backend (part4_database.py).  A table with a      *)
(* primary key is a function from the key to the other columns;            *)
(* registrations is a set of <<student_id, course_id>> rows.  Every        *)
(* function runs one statement in `with conn()`, which commits it or, on   *)
(* an exception, rolls it back and lets the exception through.             *)
(***************************************************************************)
EmptyDB ==
    [students |-> EmptyMap, instructors |-> EmptyMap, courses |-> EmptyMap,
     registrations |-> {}]

\* init_db on a new file
DInit ==
    /\ DB = EmptyDB
    /\ db_error = ""

\* how a database function ends: the tables it leaves, the exception raised
Committed(db) == [db |-> db, error |-> ""]
RolledBack(db, error) == [db |-> db, error |-> error]

\* DELETE of the students row sid; registrations: ON DELETE CASCADE
sql_delete_student(db, sid) ==
    [db EXCEPT !.students = Pop(@, sid),
               !.registrations = {r \in @ : r[1] # sid}]

\* DELETE of the instructors row iid; courses: ON DELETE SET NULL
sql_delete_instructor(db, iid) ==
    [db EXCEPT !.instructors = Pop(@, iid),
               !.courses = [c \in DOMAIN @ |->
                              IF @[c].instructor_id = iid
                              THEN [@[c] EXCEPT !.instructor_id = None]
                              ELSE @[c]]]

\* DELETE of the courses row cid without the cascade to registrations
sql_delete_course_no_cascade(db, cid) == [db EXCEPT !.courses = Pop(@, cid)]

\* DELETE of the courses row cid; registrations: ON DELETE CASCADE
sql_delete_course(db, cid) ==
    [db EXCEPT !.courses = Pop(@, cid),
               !.registrations = {r \in @ : r[2] # cid}]

\* INSERT OR REPLACE: the row with the same primary key is deleted first,
\* and the foreign keys that reference it act on that delete
create_student(db, sid, name, age, email) ==
    IF IntRaises(age) THEN RolledBack(db, "ValueError")
    ELSE IF IntOf(age) < 0 THEN RolledBack(db, "IntegrityError")
    ELSE Committed([sql_delete_student(db, sid) EXCEPT !.students =
            Put(@, sid, [name |-> name, age |-> IntOf(age), email |-> email])])

create_instructor(db, iid, name, age, email) ==
    IF IntRaises(age) THEN RolledBack(db, "ValueError")
    ELSE IF IntOf(age) < 0 THEN RolledBack(db, "IntegrityError")
    ELSE Committed([sql_delete_instructor(db, iid) EXCEPT !.instructors =
            Put(@, iid, [name |-> name, age |-> IntOf(age), email |-> email])])

create_course(db, cid, cname, iid) ==
    IF iid # None /\ iid \notin DOMAIN db.instructors
    THEN RolledBack(db, "IntegrityError")
    ELSE Committed([sql_delete_course(db, cid) EXCEPT !.courses =
            Put(@, cid, [course_name |-> cname, instructor_id |-> iid])])

\* UPDATE ... WHERE course_id = cid: no row, no change and no error
update_course(db, cid, cname, iid) ==
    IF cid \notin DOMAIN db.courses THEN Committed(db)
    ELSE IF iid # None /\ iid \notin DOMAIN db.instructors
    THEN RolledBack(db, "IntegrityError")
    ELSE Committed([db EXCEPT !.courses[cid] =
                       [course_name |-> cname, instructor_id |-> iid]])

delete_student(db, sid) == Committed(sql_delete_student(db, sid))

delete_instructor(db, iid) == Committed(sql_delete_instructor(db, iid))

delete_course(db, cid) == Committed(sql_delete_course(db, cid))

\* INSERT OR IGNORE: a row that is already there is skipped; a foreign key
\* without its parent row is an error all the same
db_register_student(db, sid, cid) ==
    IF <<sid, cid>> \in db.registrations THEN Committed(db)
    ELSE IF sid \notin DOMAIN db.students \/ cid \notin DOMAIN db.courses
    THEN RolledBack(db, "IntegrityError")
    ELSE Committed([db EXCEPT !.registrations = @ \cup {<<sid, cid>>}])

\* App.add_course: the form has no instructor field
App_add_course(db, cid_in, cname_in) ==
    LET cid == Strip(cid_in)
        cname == Strip(cname_in)
    IN IF cid = "" \/ cname = "" THEN Committed(db)
       ELSE create_course(db, cid, cname, None)

\* a call of a database function on school.db
DbCall(result) ==
    /\ DB' = result.db
    /\ db_error' = result.error
    /\ UNCHANGED <<kvars, gvars, ovars, lvars>>

\* values passed to the database functions
DbNames == {"Ann", "Bob"}
DbAges == {"20", "-1", "abc"}
DbCourseNames == {"Algo", "Bio"}

\* the calls of the database functions, on school.db
call_create_student(sid, name, age, email) ==
    DbCall(create_student(DB, sid, name, age, email))

call_create_instructor(iid, name, age, email) ==
    DbCall(create_instructor(DB, iid, name, age, email))

call_create_course(cid, cname, iid) == DbCall(create_course(DB, cid, cname, iid))

call_App_add_course(cid_in, cname_in) == DbCall(App_add_course(DB, cid_in, cname_in))

call_update_course(cid, cname, iid) == DbCall(update_course(DB, cid, cname, iid))

call_db_register_student(sid, cid) == DbCall(db_register_student(DB, sid, cid))

call_delete_student(sid) == DbCall(delete_student(DB, sid))

call_delete_instructor(iid) == DbCall(delete_instructor(DB, iid))

call_delete_course(cid) == DbCall(delete_course(DB, cid))

DOps ==
    \/ \E sid \in SIDs, name \in DbNames, age \in DbAges :
          call_create_student(sid, name, age, "ann@u.edu")
    \/ \E iid \in IIDs, name \in DbNames, age \in DbAges :
          call_create_instructor(iid, name, age, "ann@u.edu")
    \/ \E cid \in CIDs, cname \in DbCourseNames, iid \in IIDs \cup {None} :
          call_create_course(cid, cname, iid)
    \/ \E cid \in CIDs \cup {" "}, cname \in DbCourseNames :
          call_App_add_course(cid, cname)
    \/ \E cid \in CIDs, cname \in DbCourseNames, iid \in IIDs \cup {None} :
          call_update_course(cid, cname, iid)
    \/ \E sid \in SIDs, cid \in CIDs : call_db_register_student(sid, cid)
    \/ \E sid \in SIDs : call_delete_student(sid)
    \/ \E iid \in IIDs : call_delete_instructor(iid)
    \/ \E cid \in CIDs : call_delete_course(cid)

vars == <<kvars, gvars, ovars, dvars, lvars>>

Init == KInit /\ GInit /\ OInit /\ DInit /\ LInit

\* the id-keyed app used through its forms, starting from the empty store
Spec == Init /\ [][KOps]_vars

\* the id-keyed app with files loaded as well
SpecLoad == Init /\ [][KOps \/ KLoad]_vars

\* the object-graph app used through its forms, starting from the empty store
SpecGraph == Init /\ [][GOps]_vars

\* the object-graph app with the add forms and Edit Selected
SpecGraphEdit == Init /\ [][GAddOps \/ GEdit]_vars

\* the object-graph app started on files from elsewhere: the records come
\* from Load Data and are then registered, assigned and deleted
SpecGraphLoad == Init /\ [][GLoadFile \/ GLinkOps]_vars

\* the object-graph app with Save Data followed by Load Data as well
SpecGraphSaveLoad == Init /\ [][GOps \/ GSaveLoad]_vars

\* the SQLite backend
SpecDb == Init /\ [][DOps]_vars

\* Load Data of the object-graph app, statement by statement
SpecGraphLoadSteps == Init /\ [][GLoadSteps]_vars

\* Load Data of the object-graph app from either kind of file
SpecGraphLegacy == Init /\ [][GLoadFile \/ GLoadLegacy]_vars

\* a program that builds part1_oop objects, links them and exports them
SpecOop == Init /\ [][OOps]_vars

\* the same program with from_json as well
SpecOopJson == Init /\ [][OOps \/ OFromJson]_vars

(***************************************************************************)
(* Claims about the id-keyed store.                                        *)
(***************************************************************************)

\* C1: enrollment symmetry (I1) is an invariant of the id-keyed store under
\* the form handlers: for every student id s and course id c of the store,
\* s is in courses[c].students iff c is in students[s].courses.
C1_EnrollmentSymmetry ==
    \A s \in DOMAIN DATA.students : \A c \in DOMAIN DATA.courses :
        s \in Range(DATA.courses[c].students)
            <=> c \in Range(DATA.students[s].courses)

\* every course id listed by a student is a key of courses
StudentCoursesResolve(store) ==
    \A s \in DOMAIN store.students :
        Range(store.students[s].courses) \subseteq DOMAIN store.courses

\* C9: lenient load (P5) in the id-keyed apps: after load_json reads a
\* document in which a student lists a course id that is not in the courses
\* map, no student of the store lists a course that is not a key of courses.
C9_LenientLoadKeyed ==
    [][\A doc \in ExternalDocs :
          (load_json(doc) /\ ~StudentCoursesResolve(doc))
              => StudentCoursesResolve(DATA')]_vars

\* C10: no dangling references (I4) in the id-keyed store under the form
\* handlers: every id in a student's courses is a key of courses, every id in
\* a course's students is a key of students, and every instructor_id that is
\* not None is a key of instructors.
C10_NoDanglingKeyed ==
    /\ StudentCoursesResolve(DATA)
    /\ \A c \in DOMAIN DATA.courses :
          /\ Range(DATA.courses[c].students) \subseteq DOMAIN DATA.students
          /\ DATA.courses[c].instructor_id # None
                => DATA.courses[c].instructor_id \in DOMAIN DATA.instructors

(***************************************************************************)
(* Claims about the object-graph app.                                      *)
(***************************************************************************)

\* C3: assignment symmetry is an invariant of the object-graph app: for every
\* course c of course_catalog and every instructor i of instructor_list,
\* c.instructor is i exactly when c is in i.assigned_courses.
C3_AssignmentSymmetry ==
    \A c \in Range(course_catalog) : \A i \in Range(instructor_list) :
        (cobj[c].instructor = i) <=> (c \in Range(iobj[i].assigned_courses))

\* the pair the two pickers select is already registered, on both sides
AlreadyRegistered(student_selection, course_selection) ==
    LET s == find_person_by_name(student_records, sobj, student_selection)
        c == find_course_by_name(Graph, course_selection)
    IN /\ s # NoRef /\ c # NoRef
       /\ c \in Range(sobj[s].registered_courses)
       /\ s \in Range(cobj[c].enrolled_students)

\* C4: register is idempotent: register_student_for_course on a pair that
\* a first call has already registered leaves the store as it is.
C4_RegisterIdempotent ==
    [][\A ssel \in StudentSelections, csel \in CourseSelections :
          (AlreadyRegistered(ssel, csel) /\ register_student_for_course(ssel, csel))
             => UNCHANGED gvars]_vars

\* what a store holds, identity aside: the records of each kind with their
\* field values and, by id, the members of their relationships
StudentViews(g) ==
    {[id |-> g.so[x].student_id, name |-> g.so[x].name, age |-> g.so[x].age,
      email |-> g.so[x]._email,
      courses |-> {g.co[c].course_id : c \in Range(g.so[x].registered_courses)}] :
        x \in Range(g.sr)}

InstructorViews(g) ==
    {[id |-> g.io[x].instructor_id, name |-> g.io[x].name, age |-> g.io[x].age,
      email |-> g.io[x]._email,
      courses |-> {g.co[c].course_id : c \in Range(g.io[x].assigned_courses)}] :
        x \in Range(g.il)}

CourseViews(g) ==
    {[id |-> g.co[x].course_id, name |-> g.co[x].course_name,
      instructor_id |-> IF g.co[x].instructor = NoRef THEN None
                        ELSE g.io[g.co[x].instructor].instructor_id,
      students |-> {g.so[y].student_id : y \in Range(g.co[x].enrolled_students)}] :
        x \in Range(g.cc)}

SameById(g, h) ==
    /\ Len(g.sr) = Len(h.sr) /\ StudentViews(g) = StudentViews(h)
    /\ Len(g.il) = Len(h.il) /\ InstructorViews(g) = InstructorViews(h)
    /\ Len(g.cc) = Len(h.cc) /\ CourseViews(g) = CourseViews(h)

\* at least one entity of each kind, one registration and one assignment
RoundTripStore(g) ==
    /\ g.sr # <<>> /\ g.il # <<>> /\ g.cc # <<>>
    /\ \E x \in Range(g.sr) : g.so[x].registered_courses # <<>>
    /\ \E x \in Range(g.il) : g.io[x].assigned_courses # <<>>

\* C5: save_all_data followed by load_all_data gives a store with the same
\* records, field values and relationship members, compared by id.
C5_RoundTrip ==
    [][(RoundTripStore(Graph) /\ GSaveLoad) => SameById(Graph, Graph')]_vars
\* the keys of an id-keyed map of a document
KeysOf(entries) == {entries[k].key : k \in 1..Len(entries)}

\* a student lists a course id the document's courses do not hold, or a course
\* names an instructor_id the document's instructors do not hold
HasDanglingRef(doc) ==
    \/ \E k \in 1..Len(doc.students) :
          ~(Range(doc.students[k].courses) \subseteq KeysOf(doc.courses))
    \/ \E k \in 1..Len(doc.courses) :
          /\ doc.courses[k].instructor_id # None
          /\ doc.courses[k].instructor_id \notin KeysOf(doc.instructors)

\* the ids of a list that are keys of entries, in the order of the list
RECURSIVE Resolvable(_, _)
Resolvable(ids, entries) ==
    IF ids = <<>> THEN <<>>
    ELSE IF Head(ids) \in KeysOf(entries)
         THEN <<Head(ids)>> \o Resolvable(Tail(ids), entries)
         ELSE Resolvable(Tail(ids), entries)

\* the store g holds every entity of doc, in the order of doc, with every
\* reference of doc that resolves and no other
LoadedLeniently(doc, g) ==
    /\ Len(g.sr) = Len(doc.students)
    /\ Len(g.il) = Len(doc.instructors)
    /\ Len(g.cc) = Len(doc.courses)
    /\ \A k \in 1..Len(doc.instructors) :
          g.io[g.il[k]].instructor_id = doc.instructors[k].key
    /\ \A k \in 1..Len(doc.courses) :
          LET c == g.co[g.cc[k]]
              d == doc.courses[k]
          IN /\ c.course_id = d.key
             /\ IF d.instructor_id # None
                   /\ d.instructor_id \in KeysOf(doc.instructors)
                THEN /\ c.instructor # NoRef
                     /\ g.io[c.instructor].instructor_id = d.instructor_id
                ELSE c.instructor = NoRef
    /\ \A k \in 1..Len(doc.students) :
          LET x == g.so[g.sr[k]]
              d == doc.students[k]
          IN /\ x.student_id = d.key
             /\ IdsOf(x.registered_courses, course_id_of(g))
                   = Resolvable(d.courses, doc.courses)

\* C8: load_all_data on a document with an unresolvable course id or
\* instructor_id loads every entity of the document and leaves out exactly
\* the unresolvable references.
C8_LenientLoad ==
    [][\A doc \in GraphDocs :
          (HasDanglingRef(doc) /\ load_all_data(doc))
             => LoadedLeniently(doc, Graph')]_vars

\* a document in which the student lists a missing course before a present
\* one and the course names a missing instructor
DanglingDoc ==
    [students |-> <<[key |-> "STU100", name |-> "Ann", age |-> DefaultStudentAge,
                     email |-> "student@university.edu",
                     courses |-> <<"COURSE101", "COURSE100">>]>>,
     instructors |-> <<>>,
     courses |-> <<[key |-> "COURSE100", name |-> "Algo",
                    instructor_id |-> "PROF101", students |-> <<>>]>>]

\* the store is the one Load Data builds from that document
C8_Witness ==
    /\ DanglingDoc \in GraphDocs
    /\ HasDanglingRef(DanglingDoc)
    /\ Graph = load_all_data_store(DanglingDoc)
    /\ Len(sobj[student_records[1]].registered_courses) = 1

(***************************************************************************)
(* Claims about the part1_oop classes.                                     *)
(***************************************************************************)

\* C2: when Course c is assigned to Instructor a and then b.assign_course(c)
\* is called for a different Instructor b, c is no longer in
\* a.assigned_courses, c is in b.assigned_courses and c.instructor is b.
C2_Reassignment ==
    [][\A a \in 1..Len(oop_instructors), b \in 1..Len(oop_instructors),
          c \in 1..Len(oop_courses) :
          (/\ a # b
           /\ Holds(oop_instructors[a].assigned_courses, c)
           /\ oop_courses[c].instructor = a
           /\ call_assign_course(b, c))
          => (/\ ~Holds(oop_instructors'[a].assigned_courses, c)
              /\ Holds(oop_instructors'[b].assigned_courses, c)
              /\ oop_courses'[c].instructor = b)]_vars

\* C6: to_json completes for every store: no call of it ends in an
\* exception, whatever links the objects have.
C6_ToJsonCompletes == to_json_outcome \in {"not called", "written"}

\* the Course objects of a list of elements
RefsOf(list) == {list[k].ref : k \in {j \in 1..Len(list) : ~list[j].raw}}

\* the store st, returned for doc, has in each student's registered_courses
\* only Course objects, one for every listed id the document's courses hold
\* and none but those the document links to the student, and in each
\* instructor's assigned_courses exactly the Course objects whose
\* instructor_id names the instructor
ExactRelationships(doc, st) ==
    /\ \A k \in 1..Len(st.students) :
          LET regs == st.students[k].registered_courses
              listed == {c \in 1..Len(st.courses) :
                           st.courses[c].course_id
                              \in Range(doc.students[k].registered_courses)}
              enrolling == {c \in 1..Len(st.courses) :
                              st.students[k].student_id
                                 \in Range(doc.courses[c].enrolled_student_ids)}
          IN /\ ~HasRaw(regs)
             /\ listed \subseteq RefsOf(regs)
             /\ RefsOf(regs) \subseteq listed \cup enrolling
    /\ \A k \in 1..Len(st.instructors) :
          LET asg == st.instructors[k].assigned_courses
          IN /\ ~HasRaw(asg)
             /\ RefsOf(asg) = {c \in 1..Len(st.courses) :
                                 doc.courses[c].instructor_id
                                    = st.instructors[k].instructor_id}

\* C7: from_json rebuilds exact relationships from a document in the shape
\* to_json writes: Course objects only, no id strings, nothing for ids the
\* document does not hold.
C7_FromJsonExact ==
    [][\A doc \in OopDocs :
          from_json(doc) => ExactRelationships(doc, OopStore')]_vars

(***************************************************************************)
(* Claims about deleting records.                                          *)
(***************************************************************************)

\* no course of the catalog enrolls a student with that id
NoCourseEnrolls(g, record_id) ==
    \A c \in Range(g.cc) : \A x \in Range(g.co[c].enrolled_students) :
        g.so[x].student_id # record_id

\* no student and no instructor of the lists holds a course with that id
NoPersonHoldsCourse(g, record_id) ==
    /\ \A x \in Range(g.sr) : \A c \in Range(g.so[x].registered_courses) :
          g.co[c].course_id # record_id
    /\ \A x \in Range(g.il) : \A c \in Range(g.io[x].assigned_courses) :
          g.co[c].course_id # record_id

\* C11: after delete_selected_record removes a student no course of
\* course_catalog has it in enrolled_students, and after it removes a course
\* no student of student_records and no instructor of instructor_list has it
\* in registered_courses or assigned_courses.
C11_CascadeOnDelete ==
    [][\A record_id \in RecordIds :
          /\ delete_selected_record("Student", record_id)
                => NoCourseEnrolls(Graph', record_id)
          /\ delete_selected_record("Course", record_id)
                => /\ NoPersonHoldsCourse(Graph', record_id)
                   /\ \A c \in Range(course_catalog') :
                         cobj'[c].course_id # record_id]_vars

\* COURSE100 has been deleted from a catalog of two courses, and the student
\* and an instructor still hold the other course
C11_Witness ==
    /\ Len(course_catalog) = 1
    /\ cobj[course_catalog[1]].course_id = "COURSE101"
    /\ \E x \in Range(student_records) : sobj[x].registered_courses # <<>>
    /\ \E x \in Range(instructor_list) : iobj[x].assigned_courses # <<>>
    /\ NoPersonHoldsCourse(Graph, "COURSE100")

\* C12: after delete_selected(kind = 'course') for key K in the id-keyed
\* store, K is no key of courses and is in no student's and no instructor's
\* courses list, also when the store came from load_json.
C12_CourseDeleteCascadeKeyed ==
    [][\A key \in CIDs :
          delete_selected("course", key)
             => /\ key \notin DOMAIN DATA'.courses
                /\ \A s \in DOMAIN DATA'.students :
                      key \notin Range(DATA'.students[s].courses)
                /\ \A i \in DOMAIN DATA'.instructors :
                      key \notin Range(DATA'.instructors[i].courses)]_vars

\* the students of the list with their fields and the ids of their courses
StudentRows(g) ==
    [k \in 1..Len(g.sr) |->
        [id |-> g.so[g.sr[k]].student_id, name |-> g.so[g.sr[k]].name,
         age |-> g.so[g.sr[k]].age, email |-> g.so[g.sr[k]]._email,
         courses |-> IdsOf(g.so[g.sr[k]].registered_courses, course_id_of(g))]]

\* the course at position k of the catalog is in h what it is in g, except
\* that its instructor is gone if it was the instructor x of g
CourseKeptWithout(g, h, k, x) ==
    LET c == g.co[g.cc[k]]
        d == h.co[h.cc[k]]
    IN /\ d.course_id = c.course_id
       /\ d.course_name = c.course_name
       /\ IdsOf(d.enrolled_students, student_id_of(h))
             = IdsOf(c.enrolled_students, student_id_of(g))
       /\ IF c.instructor = x \/ c.instructor = NoRef
          THEN d.instructor = NoRef
          ELSE /\ d.instructor # NoRef
               /\ h.io[d.instructor].instructor_id
                     = g.io[c.instructor].instructor_id

\* C13: deleting the instructor of the selected row removes it, clears the
\* instructor of exactly the courses that referenced it, and leaves the
\* catalog, every course's name and enrolled students, every other course's
\* instructor and all students as they were.
C13_InstructorDeleteFrame ==
    [][\A x \in Range(instructor_list) :
          delete_selected_record("Instructor", iobj[x].instructor_id)
             => /\ \A y \in Range(instructor_list') :
                      iobj'[y].instructor_id # iobj[x].instructor_id
                /\ Len(course_catalog') = Len(course_catalog)
                /\ \A k \in 1..Len(course_catalog) :
                      CourseKeptWithout(Graph, Graph', k, x)
                /\ StudentRows(Graph') = StudentRows(Graph)]_vars

\* C14: no two students of student_records share a student_id, no two
\* instructors of instructor_list an instructor_id, and no two courses of
\* course_catalog a course_id.
C14_KeyUniqueness ==
    /\ NoDup(IdsOf(student_records, student_id_of(Graph)))
    /\ NoDup(IdsOf(instructor_list, instructor_id_of(Graph)))
    /\ NoDup(IdsOf(course_catalog, course_id_of(Graph)))

\* exactly one side of the link between student s and course c exists
OneSided(st, s, c) ==
    Holds(st.students[s].registered_courses, c)
        # (s \in Range(st.courses[c].enrolled_students))

\* both sides of the link exist, each once
LinkedOnce(st, s, c) ==
    /\ Cardinality({k \in 1..Len(st.students[s].registered_courses) :
                      st.students[s].registered_courses[k] = Obj(c)}) = 1
    /\ Cardinality({k \in 1..Len(st.courses[c].enrolled_students) :
                      st.courses[c].enrolled_students[k] = s}) = 1

\* C15: in every store, student.register_course(course) for a pair of which
\* exactly one side of the link exists gives a store with both sides
\* present, each exactly once.
C15_RegisterRepairs ==
    \A s \in 1..Len(oop_students), c \in 1..Len(oop_courses) :
        OneSided(OopStore, s, c)
           => LinkedOnce(P1_register_course(OopStore, s, c), s, c)

(***************************************************************************)
(* Claims about assignment, validation and editing in the object-graph app. *)
(***************************************************************************)

\* the first course of that name has no instructor and is in no instructor's
\* assigned_courses
Unassigned(g, course_selection) ==
    LET c == find_course_by_name(g, course_selection)
    IN /\ g.co[c].instructor = NoRef
       /\ \A i \in Range(g.il) : c \notin Range(g.io[i].assigned_courses)

\* C16: for a course that has an instructor, assign_instructor_to_course with
\* an instructor selection that is empty or names nobody leaves the course
\* without instructor and in no instructor's assigned_courses.
C16_AssignNoneClears ==
    \A isel \in InstructorSelections, csel \in CourseSelections :
        LET c == find_course_by_name(Graph, csel)
        IN (/\ c # NoRef
            /\ cobj[c].instructor # NoRef
            /\ find_person_by_name(instructor_list, iobj, isel) = NoRef)
           => Unassigned(assign_instructor_to_course_graph(Graph, isel, csel),
                         csel)

\* a form with an empty name, a negative or non-numeric age, a malformed
\* email or an empty id
InvalidPersonForm(name_in, age_in, email_in, id_in) ==
    \/ name_in = ""
    \/ age_in # "" /\ ~IsDigit(age_in)
    \/ email_in # "" /\ ~Person_init_ok("x", 0, email_in)
    \/ id_in = ""

\* C17: add_student and add_instructor on a form with an invalid value fail
\* and leave student_records and instructor_list as they were.
C17_ValidationOnAdd ==
    [][/\ \A name \in PersonNameTexts, age \in GAgeTexts,
             email \in GEmailTexts, id \in StudentIdTexts :
             (InvalidPersonForm(name, age, email, id)
                 /\ G_add_student(name, age, email, id))
                => UNCHANGED gvars
       /\ \A name \in PersonNameTexts, age \in GAgeTexts,
             email \in GEmailTexts, id \in InstructorIdTexts :
             (InvalidPersonForm(name, age, email, id)
                 /\ G_add_instructor(name, age, email, id))
                => UNCHANGED gvars]_vars

\* an edit form with a value the constructors would reject: a negative or
\* non-numeric age, or an email without "@" or starting with "@"
InvalidEditForm(age_text, new_email) ==
    \/ age_text # "" /\ ~IsDigit(age_text)
    \/ new_email # "" /\ ~Person_init_ok("x", 0, new_email)

\* name, age and email of the first record of the given type and id
PersonFields(g, record_type, record_id) ==
    LET x == IF record_type = "Student"
             THEN first_with_id(g.sr, student_id_of(g), record_id)
             ELSE first_with_id(g.il, instructor_id_of(g), record_id)
        p == IF record_type = "Student" THEN g.so[x] ELSE g.io[x]
    IN IF x = NoRef THEN <<>> ELSE <<p.name, p.age, p._email>>

\* C18: edit_selected_record with at least one invalid field value leaves
\* the name, age and email of the selected student or instructor unchanged.
C18_EditAllOrNothing ==
    \A row \in TableRows(Graph) :
       \A new_name \in EditNameTexts, age_text \in EditAgeTexts,
          new_email \in EditEmailTexts :
          (row[1] # "Course" /\ InvalidEditForm(age_text, new_email))
             => PersonFields(edit_selected_record_graph(Graph, row[1], row[2],
                                 new_name, age_text, new_email), row[1], row[2])
                = PersonFields(Graph, row[1], row[2])

\* the student's haystack as the search contract words it: id, name, email,
\* then the ids and the names of the courses in the student's courses list,
\* leaving out the course `without`
RECURSIVE ListedCourseIds(_, _)
ListedCourseIds(cids, without) ==
    IF cids = <<>> THEN <<>>
    ELSE IF Head(cids) = without THEN ListedCourseIds(Tail(cids), without)
    ELSE <<Head(cids)>> \o ListedCourseIds(Tail(cids), without)

RECURSIVE ListedCourseNames(_, _)
ListedCourseNames(store, cids) ==
    IF cids = <<>> THEN <<>>
    ELSE (IF Head(cids) \in DOMAIN store.courses
          THEN <<store.courses[Head(cids)].name>> ELSE <<>>)
         \o ListedCourseNames(store, Tail(cids))

StudentHaystack(store, sid, without) ==
    LET cids == ListedCourseIds(store.students[sid].courses, without)
    IN lower(join(<<sid, store.students[sid].name, store.students[sid].email>>
                  \o cids \o ListedCourseNames(store, cids)))

\* sid is listed for the name of course cid because of that course alone
MatchedOnlyThrough(store, sid, cid) ==
    /\ cid \in Range(store.students[sid].courses)
    /\ sid \in refresh_students(store, store.courses[cid].name)
    /\ ~contains(StudentHaystack(store, sid, cid),
                 strip(lower(Text(store.courses[cid].name))))

C19_HaystackMatch ==
    \A query \in SearchTexts : \A sid \in DOMAIN DATA.students :
        strip(lower(Text(query))) # <<>> =>
           (sid \in refresh_students(DATA, query)
              <=> contains(StudentHaystack(DATA, sid, None),
                           strip(lower(Text(query)))))

C19_ListedByCourseName ==
    \A sid \in DOMAIN DATA.students :
       \A cid \in Range(DATA.students[sid].courses) \cap DOMAIN DATA.courses :
          sid \in refresh_students(DATA, DATA.courses[cid].name)

C19_AfterRegister ==
    \A sid \in SIDs, cid \in CIDs :
       (/\ DATA' # DATA
        /\ sid \in DOMAIN DATA.students /\ cid \in DOMAIN DATA.courses
        /\ register_student(sid, cid))
          => sid \in refresh_students(DATA', DATA'.courses[cid].name)

C19_AfterDelete ==
    \A cid \in CIDs :
       (DATA' # DATA /\ delete_selected("course", cid)) =>
          \A sid \in DOMAIN DATA.students :
             /\ cid \notin Range(DATA'.students[sid].courses)
             /\ DATA.students[sid].courses = <<cid>>
                   => DATA'.students[sid].courses = <<>>
             /\ MatchedOnlyThrough(DATA, sid, cid)
                   => sid \notin refresh_students(DATA', DATA.courses[cid].name)

\* C19: refresh_students(q) with a non-empty query lists a student exactly
\* when the lower-cased, stripped query is a substring of the lower-cased
\* haystack of the student's id, name, email and the ids and names of the
\* courses in the student's courses list; a registered student is listed for
\* the course's name, also right after register_student; after
\* delete_selected on the course the student's list no longer holds it and
\* the course's name lists no student it matched only through that course.
C19_SearchFollowsRelationships ==
    /\ [](C19_HaystackMatch /\ C19_ListedByCourseName)
    /\ [][C19_AfterRegister /\ C19_AfterDelete]_vars

\* a student listed for a course's name through that course alone
C19_Witness ==
    \E sid \in DOMAIN DATA.students : \E cid \in DOMAIN DATA.courses :
       /\ MatchedOnlyThrough(DATA, sid, cid)
       /\ \E other \in DOMAIN DATA.students :
             other \notin refresh_students(DATA, DATA.courses[cid].name)

\* the course's text as the search contract words it: id, name and, when
\* an instructor is assigned, the instructor's id
CourseText(store, cid) ==
    LET c == store.courses[cid]
    IN lower(join(<<cid, c.name>> \o
                  (IF c.instructor_id = None THEN <<>>
                   ELSE <<c.instructor_id>>)))

\* C20: refresh_courses(q) with a non-empty query lists a course only if the
\* lower-cased query is a substring of the lower-cased text of the course's
\* id, name and assigned instructor's id; a course without an instructor is
\* matched through its id or name only.
C20_CourseHaystack ==
    \A query \in SearchTexts : \A cid \in refresh_courses(DATA, query) :
        strip(lower(Text(query))) # <<>> =>
           contains(CourseText(DATA, cid), strip(lower(Text(query))))

\* C21: in every reachable DATA, c is in instructors[i].courses if and only
\* if courses[c].instructor_id = i.
C21_InstructorCoursesFlattened ==
    \A i \in DOMAIN DATA.instructors : \A c \in DOMAIN DATA.courses :
        c \in Range(DATA.instructors[i].courses)
           <=> DATA.courses[c].instructor_id = i

\* I4 on the id-keyed store: every id in a record is a key of its collection
NoDanglingStore(store) ==
    /\ \A s \in DOMAIN store.students :
          Range(store.students[s].courses) \subseteq DOMAIN store.courses
    /\ \A i \in DOMAIN store.instructors :
          Range(store.instructors[i].courses) \subseteq DOMAIN store.courses
    /\ \A c \in DOMAIN store.courses :
          /\ Range(store.courses[c].students) \subseteq DOMAIN store.students
          /\ store.courses[c].instructor_id \in DOMAIN store.instructors \cup {None}

KeysOfKind(store, kind) ==
    CASE kind = "student" -> DOMAIN store.students
      [] kind = "instructor" -> DOMAIN store.instructors
      [] kind = "course" -> DOMAIN store.courses

\* C22: in a store without dangling ids, delete_selected with a key that is
\* not in the targeted collection leaves the whole store as it was.
C22_DeleteMissingIsNoOp ==
    \A kind \in {"student", "instructor", "course"} :
       \A key \in SIDs \cup IIDs \cup CIDs :
          (NoDanglingStore(DATA) /\ key \notin KeysOfKind(DATA, kind))
             => delete_selected_store(DATA, kind, key) = DATA

\* a store without dangling ids that holds an enrolment and an assignment,
\* and a student id that is not a key
C22_Witness ==
    /\ NoDanglingStore(DATA)
    /\ \E c \in DOMAIN DATA.courses :
          /\ DATA.courses[c].students # <<>>
          /\ DATA.courses[c].instructor_id # None
    /\ \E key \in SIDs : key \notin DOMAIN DATA.students

\* C23: for a student registered in a course, perform_search with criterion
\* 'Course' and a non-empty query that is a case-insensitive substring of the
\* course's name or id shows the student's row.
C23_SearchByCourse ==
    \A k \in 1..Len(student_records) : \A query \in GSearchTexts :
       LET s == sobj[student_records[k]]
       IN \A c \in Range(s.registered_courses) :
             (/\ query # ""
              /\ \/ contains(lower(Text(cobj[c].course_name)), lower(Text(query)))
                 \/ contains(lower(Text(cobj[c].course_id)), lower(Text(query))))
                => <<"Student", s.student_id>>
                      \in perform_search(Graph, query, "Course")

\* C24: add_student or add_course with an id that is already a key changes
\* scalar fields only: the student's courses list, the course's students
\* list and instructor_id, every other record and the key sets stay the same.
C24_UpdateFieldsOnly ==
    [][/\ \A sid \in DOMAIN DATA.students :
             \A name \in NameTexts, age \in AgeTexts, email \in EmailTexts :
                add_student(sid, name, age, email) =>
                   /\ DOMAIN DATA'.students = DOMAIN DATA.students
                   /\ DATA'.students[sid].courses = DATA.students[sid].courses
                   /\ \A o \in DOMAIN DATA.students \ {sid} :
                         DATA'.students[o] = DATA.students[o]
                   /\ DATA'.courses = DATA.courses
                   /\ DATA'.instructors = DATA.instructors
       /\ \A cid \in DOMAIN DATA.courses : \A name \in CourseNameTexts :
             add_course(cid, name) =>
                /\ DOMAIN DATA'.courses = DOMAIN DATA.courses
                /\ DATA'.courses[cid].students = DATA.courses[cid].students
                /\ DATA'.courses[cid].instructor_id
                      = DATA.courses[cid].instructor_id
                /\ \A o \in DOMAIN DATA.courses \ {cid} :
                      DATA'.courses[o] = DATA.courses[o]
                /\ DATA'.students = DATA.students
                /\ DATA'.instructors = DATA.instructors]_vars

\* C25: in every store reached by assign_course calls, the store right after
\* i.assign_course(c) has c.instructor = i and c exactly once in
\* i.assigned_courses, also when c went to another instructor in between.
C25_AssignPostcondition ==
    \A i \in 1..Len(oop_instructors), c \in 1..Len(oop_courses) :
        LET st == P1_assign_course(OopStore, i, c)
        IN /\ st.courses[c].instructor = i
           /\ Cardinality({k \in 1..Len(st.instructors[i].assigned_courses) :
                             st.instructors[i].assigned_courses[k] = Obj(c)}) = 1

(***************************************************************************)
(* Claims about the SQLite backend.                                        *)
(***************************************************************************)

\* every registrations row has its student and its course, and every
\* non-null courses.instructor_id has its instructor; registrations being a
\* set of pairs, a pair has at most one row
DbIntegrity(db) ==
    /\ \A r \in db.registrations :
          r[1] \in DOMAIN db.students /\ r[2] \in DOMAIN db.courses
    /\ \A c \in DOMAIN db.courses :
          db.courses[c].instructor_id \in DOMAIN db.instructors \cup {None}

\* register_student or update_course naming a student, course or instructor
\* that has no row raises and leaves the tables as they were
DbMissingIdFails ==
    /\ \A sid \in SIDs, cid \in CIDs :
          (sid \notin DOMAIN DB.students \/ cid \notin DOMAIN DB.courses)
             => LET r == db_register_student(DB, sid, cid)
                IN r.error # "" /\ r.db = DB
    /\ \A cid \in CIDs, cname \in DbCourseNames, iid \in IIDs :
          (cid \notin DOMAIN DB.courses \/ iid \notin DOMAIN DB.instructors)
             => LET r == update_course(DB, cid, cname, iid)
                IN r.error # "" /\ r.db = DB

\* the same, where update_course raises only for a missing instructor of a
\* course that has a row
DbMissingIdRejected ==
    /\ \A sid \in SIDs, cid \in CIDs :
          (sid \notin DOMAIN DB.students \/ cid \notin DOMAIN DB.courses)
             => LET r == db_register_student(DB, sid, cid)
                IN r.error # "" /\ r.db = DB
    /\ \A cid \in CIDs, cname \in DbCourseNames, iid \in IIDs :
          (cid \notin DOMAIN DB.courses \/ iid \notin DOMAIN DB.instructors)
             => LET r == update_course(DB, cid, cname, iid)
                IN /\ r.db = DB
                   /\ (cid \in DOMAIN DB.courses) => r.error # ""

\* delete_student and delete_course remove the entity's registrations;
\* delete_instructor keeps its courses, with instructor_id NULL
DbDeleteCascades ==
    /\ \A sid \in SIDs :
          \A r \in delete_student(DB, sid).db.registrations : r[1] # sid
    /\ \A cid \in CIDs :
          \A r \in delete_course(DB, cid).db.registrations : r[2] # cid
    /\ \A iid \in IIDs :
          LET after == delete_instructor(DB, iid).db
          IN /\ DOMAIN after.courses = DOMAIN DB.courses
             /\ \A c \in DOMAIN DB.courses :
                   after.courses[c].instructor_id =
                      IF DB.courses[c].instructor_id = iid THEN None
                      ELSE DB.courses[c].instructor_id

\* C26 as stated: referential integrity in every reachable state of the
\* database; register_student or update_course naming a missing id fails and
\* leaves all tables unchanged; the deletes cascade.
C26_ReferentialIntegrityStated ==
    DbIntegrity(DB) /\ DbMissingIdFails /\ DbDeleteCascades

\* C26: referential integrity in every reachable state of the database;
\* register_student naming a missing student or course, and update_course
\* naming a missing instructor for an existing course, raise and leave all
\* tables unchanged; update_course on a missing course changes nothing;
\* delete_student and delete_course remove the entity's registrations and
\* delete_instructor keeps its courses with instructor_id NULL.
C26_ReferentialIntegrity ==
    DbIntegrity(DB) /\ DbMissingIdRejected /\ DbDeleteCascades

\* a registered student of a course that has an instructor, next to a
\* student id and a course id without rows
C26_Witness ==
    /\ \E r \in DB.registrations : DB.courses[r[2]].instructor_id # None
    /\ \E sid \in SIDs : sid \notin DOMAIN DB.students
    /\ \E cid \in CIDs : cid \notin DOMAIN DB.courses
    /\ db_error = "IntegrityError"

\* C27: create_student, create_instructor and App.add_course applied to an
\* id that already has a row change scalar fields only: the registrations
\* rows are the same, the courses of the instructor still reference it, and
\* the course keeps its instructor_id.
C27_DbUpdateFieldsOnly ==
    /\ \A sid \in DOMAIN DB.students : \A name \in DbNames :
          create_student(DB, sid, name, "20", "ann@u.edu").db.registrations
             = DB.registrations
    /\ \A iid \in DOMAIN DB.instructors : \A name \in DbNames :
          create_instructor(DB, iid, name, "20", "ann@u.edu").db.courses
             = DB.courses
    /\ \A cid \in DOMAIN DB.courses : \A cname \in DbCourseNames :
          LET after == App_add_course(DB, cid, cname).db
          IN /\ after.registrations = DB.registrations
             /\ after.courses[cid].instructor_id
                   = DB.courses[cid].instructor_id

(***************************************************************************)
(* Claims about load_all_data of the object-graph app.                     *)
(***************************************************************************)
KindRank(kind) ==
    CASE kind = "Instructor" -> 1 [] kind = "Course" -> 2 [] kind = "Student" -> 3

Built(kind) == {k \in 1..Len(loader.log) : loader.log[k][1] = kind}

DocKeys(entries) == {entries[k].key : k \in 1..Len(entries)}

\* C28: while load_all_data runs on an id-keyed document, every Instructor
\* is built before the first Course and every Course before the first
\* Student; a course's instructor_id is resolved against all instructors of
\* the document and the course is in that instructor's assigned_courses; a
\* student's course ids are resolved against all courses of the document.
C28_ReconstructionOrder ==
    /\ \A a, b \in 1..Len(loader.log) :
          a < b => KindRank(loader.log[a][1]) <= KindRank(loader.log[b][1])
    /\ Built("Course") # {}
          => Cardinality(Built("Instructor")) = Len(loader.doc.instructors)
    /\ Built("Student") # {}
          => Cardinality(Built("Course")) = Len(loader.doc.courses)
    /\ loader.pc = "courses"
          => /\ DOMAIN loader.inst_lookup = DocKeys(loader.doc.instructors)
             /\ \A c \in Range(loader.g.cc) :
                   LET i == loader.g.co[c].instructor
                   IN i # NoRef => c \in Range(loader.g.io[i].assigned_courses)
             /\ \A k \in 1..Len(loader.g.cc) :
                   LET d == loader.doc.courses[k]
                   IN (d.instructor_id \in DocKeys(loader.doc.instructors))
                         => loader.g.co[loader.g.cc[k]].instructor # NoRef
    /\ loader.pc = "students"
          => /\ DOMAIN loader.course_lookup = DocKeys(loader.doc.courses)
             /\ \A k \in 1..Len(loader.g.sr) :
                   LET d == loader.doc.students[k]
                       listed == Range(d.courses) \cap DocKeys(loader.doc.courses)
                   IN {loader.g.co[c].course_id :
                          c \in Range(loader.g.so[loader.g.sr[k]].registered_courses)}
                      = listed

\* a load that has built an instructor, a course that names it and a student
\* that lists the course
C28_Witness ==
    /\ loader.pc = "students"
    /\ loader.k > Len(loader.doc.students)
    /\ \E c \in Range(loader.g.cc) : loader.g.co[c].instructor # NoRef
    /\ \E s \in Range(loader.g.sr) : loader.g.so[s].registered_courses # <<>>

\* the document with every instructor's courses and every course's students
\* replaced
WithOtherSide(doc, inst_courses, course_students) ==
    [doc EXCEPT
       !.instructors = [k \in 1..Len(@) |-> [@[k] EXCEPT !.courses = inst_courses]],
       !.courses = [k \in 1..Len(@) |-> [@[k] EXCEPT !.students = course_students]]]

OtherSideCourses == {<<>>, <<"COURSE101">>, <<"COURSE100", "COURSE101">>}
OtherSideStudents == {<<>>, <<"STU100">>, <<"STU101">>}

EnrollmentSymmetric(g) ==
    \A x \in Range(g.sr) : \A c \in Range(g.cc) :
        (x \in Range(g.co[c].enrolled_students))
           <=> (c \in Range(g.so[x].registered_courses))

AssignmentSymmetric(g) ==
    \A c \in Range(g.cc) : \A i \in Range(g.il) :
        (g.co[c].instructor = i) <=> (c \in Range(g.io[i].assigned_courses))

\* C29: the store load_all_data builds from an id-keyed document is the same
\* for every content of instructors[*].courses and courses[*].students, and
\* it satisfies enrollment symmetry and assignment symmetry.
C29_LoadOneSided ==
    [][\A doc \in GraphDocs :
          load_all_data(doc) =>
             /\ \A ic \in OtherSideCourses, cs \in OtherSideStudents :
                   load_all_data_store(WithOtherSide(doc, ic, cs)) = Graph'
             /\ EnrollmentSymmetric(Graph')
             /\ AssignmentSymmetric(Graph')]_vars

\* a store loaded from a document with an assigned course and a registration
C29_Witness ==
    /\ \E doc \in GraphDocs : Graph = load_all_data_store(doc)
    /\ \E c \in Range(course_catalog) :
          cobj[c].instructor # NoRef /\ cobj[c].enrolled_students # <<>>

\* no object of the store refers to an object that is in none of the lists
NoDiscardedRefs(g) ==
    /\ \A c \in Range(g.cc) :
          /\ Range(g.co[c].enrolled_students) \subseteq Range(g.sr)
          /\ g.co[c].instructor # NoRef => g.co[c].instructor \in Range(g.il)
    /\ \A x \in Range(g.sr) : Range(g.so[x].registered_courses) \subseteq Range(g.cc)
    /\ \A i \in Range(g.il) : Range(g.io[i].assigned_courses) \subseteq Range(g.cc)

NonEmptyStore ==
    student_records # <<>> \/ instructor_list # <<>> \/ course_catalog # <<>>

\* C30: after load_all_data on a non-empty store, from the id-keyed file or
\* from any subset of the per-entity files, every enrolled student of a
\* catalog course is in student_records, every course a listed student or
\* instructor holds is in course_catalog, and every course's instructor is in
\* instructor_list.
C30_LoadLeavesNoDiscardedRefs ==
    [][(/\ NonEmptyStore
        /\ NoDiscardedRefs(Graph)
        /\ \/ \E doc \in GraphDocs : load_all_data(doc)
           \/ \E files \in LegacyFiles : load_all_data_legacy(files))
          => NoDiscardedRefs(Graph')]_vars

=============================================================================
